---- MODULE Spec2Model ----
(***************************************************************************)
(* Connector framework of omni-erp: the resilient HTTP transport.          *)
(*   CircuitBreaker  (connectors/http/CircuitBreaker.ts, lines 1-204)      *)
(*   HttpClient      (connectors/http/CircuitBreaker.ts, lines 207-539)    *)
(*   RetryStrategy   (connectors/auth/AuthHandler.ts, lines 247-403)       *)
(*   RateLimiter     (connectors/utils/ConnectionTester.ts, lines 273-496) *)
(* and the connectors built on it.                                         *)
(*   BaseConnector   (connectors/base/BaseConnector.ts)                    *)
(*   RESTConnector   (connectors/rest/RESTConnector.ts)                    *)
(*   ODataConnector  (src/unnamed/part_004)                                *)
(*   OAuth2Handler, JWTHandler (connectors/auth/AuthHandler.ts, 28-222)    *)
(* Every class is a record plus pure operators that compute what its       *)
(* methods compute; the actions are the asynchronous steps between two     *)
(* suspension points (await) of the event loop.                            *)
(***************************************************************************)
EXTENDS Integers, Sequences, FiniteSets, TLC

VARIABLES
  now,            \* Date.now(), in milliseconds
  cb,             \* the CircuitBreaker object's fields
  cbInflight,     \* number of execute(fn) calls whose fn() has not settled
  cbOut,          \* what the last step did to an execute caller
  cbErrTime,      \* nextAttemptTime carried by the last CircuitBreakerError
  cbEmit,         \* the event the last step emitted
  cbConsecFail,   \* history: failed executions since the last success or reset()
  cbHalfOpenSucc, \* history: successful executions since HALF_OPEN was entered
  rtAttempts,     \* RetryStrategy options.attempts
  rtScript,       \* input: what the k-th invocation of fn settles with
  rtPc,           \* where RetryStrategy.execute stands
  rtAttempt,      \* its local variable attempt
  rtLastError,    \* its local variable lastError
  rtSleeps,       \* the delays it has slept, in order
  rtInvocations,  \* number of times fn was invoked
  rtSettled,      \* the value it returned or the error it threw
  rl,             \* the RateLimiter object's fields
  rlLoops,        \* the processQueue() runs suspended in sleep(): [since, wake]
  rlNextId,       \* number of the next acquire() call
  rlOut,          \* what the last step did to an acquire caller
  rlReleased,     \* history: the queued calls released so far, in order
  rlHist,         \* history: time of the last acquire(), whether all calls were
                  \* spaced by windowMs/maxRequests, whether reset() was called
  rlErr,          \* retryAfter carried by the last RateLimitError
  hCfg,           \* HttpClient: is a rateLimiter given, has authHandler refreshToken
  hReq,           \* HttpClient: the request() calls, one per slot
  cnCfg,          \* connector: its class, config.csrf, is an `error` listener on
  cn,             \* the connector object's fields
  cnCalls,        \* the connector calls in flight, one per slot
  cnStarted,      \* number of calls made on the connector
  cnOut,          \* what the last step did: the call, its result, the events
                  \* emitted, the request handed to HttpClient
  cnDisconnected, \* history: number of `disconnected` events emitted
  au,             \* auth handler and connector config: the objects, the
                  \* references between them, the authenticate() call in flight
  auOut,          \* what the last step on them did
  cs,             \* ConnectorService: the connectors map, the calls in flight, the instances made
  csOut,          \* what the last step of ConnectorService did
  pg,             \* getAllData / getAll: the configuration, the loop's variables, the requests made
  qb,             \* ODataQueryBuilder: the version, the filter condition given, the filter string built
  mp              \* ODataMetadataParser: the document given to parse(), the metadata returned

cbVars == <<cb, cbInflight, cbOut, cbErrTime, cbEmit, cbConsecFail, cbHalfOpenSucc>>
rtVars == <<rtAttempts, rtScript, rtPc, rtAttempt, rtLastError, rtSleeps,
            rtInvocations, rtSettled>>
rlVars == <<rl, rlLoops, rlNextId, rlOut, rlReleased, rlHist>>
hVars == <<hCfg, hReq>>
cnVars == <<cnCfg, cn, cnCalls, cnStarted, cnOut, cnDisconnected>>
auVars == <<au, auOut>>
csVars == <<cs, csOut>>
pgVars == <<pg>>
qbVars == <<qb>>
mpVars == <<mp>>
extVars == <<auVars, csVars, pgVars, qbVars, mpVars>>
vars == <<now, cbVars, rtVars, rlVars, rlErr, hVars, cnVars, extVars>>
nonCB == <<rtVars, rlVars, rlErr, hVars, cnVars, extVars>>
nonRT == <<now, cbVars, rlVars, rlErr, hVars, cnVars, extVars>>
nonRL == <<cbVars, rtVars, rlErr, hVars, cnVars, extVars>>
nonCN == <<cbVars, rtVars, rlVars, rlErr, hVars, extVars>>
nonAU == <<cbVars, rtVars, rlVars, rlErr, hVars, cnVars, csVars, pgVars, qbVars, mpVars>>
nonMP == <<cbVars, rtVars, rlVars, rlErr, hVars, cnVars, auVars, csVars, pgVars, qbVars>>
nonQB == <<cbVars, rtVars, rlVars, rlErr, hVars, cnVars, auVars, csVars, pgVars, mpVars>>
nonPG == <<cbVars, rtVars, rlVars, rlErr, hVars, cnVars, auVars, csVars, qbVars, mpVars>>
nonCS == <<cbVars, rtVars, rlVars, rlErr, hVars, cnVars, auVars, pgVars, qbVars, mpVars>>
\* what the HttpClient steps leave alone: the histories of the other models
nonH == <<cbInflight, cbOut, cbErrTime, cbEmit, cbConsecFail, cbHalfOpenSucc,
          rtVars, rlNextId, rlOut, rlReleased, rlHist, rlErr, cnVars, extVars>>

(***************************************************************************)
(* Bounds of the model.                                                    *)
(***************************************************************************)
TickMs == 500
MaxTicks == 6
MaxTime == MaxTicks * TickMs
MaxInflight == 2
FailureThreshold == 3
TimeoutTicks == 2
MaxAttempts == 3
MaxRequests == 2
WindowTicks == 4
MaxCalls == 4
MaxSlots == 1
MaxRefresh == 2
CnSlots == 2
MaxOps == 4
MaxODOps == 3
MaxPages == 2
MaxEvents == 1
CnTicks == 1
CsSlots == 2
CsMaxCalls == 3
RlMaxUpdates == 1
PgMaxPages == 3
PgMaxSize == 2
PgMaxLinks == 3
QbMaxValues == 2
MpMaxTypes == 2
MpMaxProps == 2

(***************************************************************************)
(* Program constants.                                                      *)
(***************************************************************************)
SuccessThreshold == 2
NoTime == -1
DefaultAttempts == 3
RetryDelay == 1000
RetryMaxDelay == 30000
BackoffMultiplier == 2
NoStatus == 0
RetryableStatuses == {408, 429, 500, 502, 503, 504}
RetryableErrors == {"ECONNRESET", "ETIMEDOUT", "ENOTFOUND", "ENETUNREACH"}
Timeout == TimeoutTicks * TickMs
WindowMs == WindowTicks * TickMs

Min(a, b) == IF a <= b THEN a ELSE b

(***************************************************************************)
(* CircuitBreaker                                                          *)
(***************************************************************************)
\* lastFailureTime and lastSuccessTime are left out: the breaker writes them
\* and reads them nowhere but in getInfo()
CB_new ==
  [state |-> "closed", failureCount |-> 0, successCount |-> 0,
   nextAttemptTime |-> NoTime]

\* close(): the result is the object and the event emitted
CB_close(b) ==
  [b |-> [b EXCEPT !.state = "closed", !.failureCount = 0, !.successCount = 0,
                   !.nextAttemptTime = NoTime],
   ev |-> "close"]

CB_open(b, t) ==
  [b |-> [b EXCEPT !.state = "open", !.nextAttemptTime = t + Timeout,
                   !.successCount = 0],
   ev |-> "open"]

CB_halfOpen(b) ==
  [b |-> [b EXCEPT !.state = "half_open", !.successCount = 0, !.failureCount = 0],
   ev |-> "half_open"]

CB_shouldAttemptReset_late(b, t) ==
  IF b.nextAttemptTime = NoTime THEN TRUE ELSE t > b.nextAttemptTime

CB_shouldAttemptReset(b, t) ==
  IF b.nextAttemptTime = NoTime THEN TRUE ELSE t >= b.nextAttemptTime

CB_onSuccess_late(b, t) ==
  LET b1 == b IN
  IF b1.state = "half_open"
    THEN LET b2 == [b1 EXCEPT !.successCount = @ + 1] IN
         IF b2.successCount > SuccessThreshold
           THEN CB_close(b2)
           ELSE [b |-> b2, ev |-> "none"]
    ELSE [b |-> [b1 EXCEPT !.failureCount = 0], ev |-> "none"]

CB_onSuccess(b, t) ==
  LET b1 == b IN
  IF b1.state = "half_open"
    THEN LET b2 == [b1 EXCEPT !.successCount = @ + 1] IN
         IF b2.successCount >= SuccessThreshold
           THEN CB_close(b2)
           ELSE [b |-> b2, ev |-> "none"]
    ELSE [b |-> [b1 EXCEPT !.failureCount = 0], ev |-> "none"]

CB_onFailure_late(b, t) ==
  LET b1 == [b EXCEPT !.failureCount = @ + 1] IN
  IF b1.state = "half_open"
    THEN CB_open(b1, t)
    ELSE IF b1.failureCount > FailureThreshold
           THEN CB_open(b1, t)
           ELSE [b |-> b1, ev |-> "none"]

CB_onFailure(b, t) ==
  LET b1 == [b EXCEPT !.failureCount = @ + 1] IN
  IF b1.state = "half_open"
    THEN CB_open(b1, t)
    ELSE IF b1.failureCount >= FailureThreshold
           THEN CB_open(b1, t)
           ELSE [b |-> b1, ev |-> "none"]

CB_reset(b) ==
  [b |-> [state |-> "closed", failureCount |-> 0, successCount |-> 0,
          nextAttemptTime |-> NoTime],
   ev |-> "reset"]

\* execute(fn) up to the call of fn: admitted says whether fn is invoked,
\* errTime is the nextAttemptTime the CircuitBreakerError carries
CB_executeEntry(b, t) ==
  IF b.state = "open"
    THEN IF CB_shouldAttemptReset(b, t)
           THEN LET r == CB_halfOpen(b) IN
                [b |-> r.b, ev |-> r.ev, admitted |-> TRUE, errTime |-> NoTime]
           ELSE [b |-> b, ev |-> "none", admitted |-> FALSE,
                 errTime |-> IF b.nextAttemptTime # NoTime
                               THEN b.nextAttemptTime ELSE t]
    ELSE [b |-> b, ev |-> "none", admitted |-> TRUE, errTime |-> NoTime]


(***************************************************************************)
(* RetryStrategy                                                           *)
(* An error object is [id, response, code]: id tells the objects apart,    *)
(* response is error.response.status (NoStatus: the error has no response  *)
(* property), code is error.code ("" when it has none).                    *)
(***************************************************************************)
NoError == [id |-> 0, response |-> NoStatus, code |-> ""]

RS_hasRetryableStatus(e) ==
  IF e.response # NoStatus THEN e.response \in RetryableStatuses ELSE FALSE

RS_hasRetryableErrorCode(e) ==
  IF e.code # "" THEN e.code \in RetryableErrors ELSE FALSE

RS_shouldRetry_any(e, attempt, attempts) ==
  IF attempt >= attempts THEN FALSE ELSE TRUE

RS_shouldRetry_early(e, attempt, attempts) ==
  IF attempt + 1 >= attempts THEN FALSE
  ELSE IF RS_hasRetryableStatus(e) THEN TRUE
  ELSE IF RS_hasRetryableErrorCode(e) THEN TRUE
  ELSE FALSE

RS_shouldRetry(e, attempt, attempts) ==
  IF attempt >= attempts THEN FALSE
  ELSE IF RS_hasRetryableStatus(e) THEN TRUE
  ELSE IF RS_hasRetryableErrorCode(e) THEN TRUE
  ELSE FALSE

RECURSIVE Pow(_, _)
Pow(b, n) == IF n <= 0 THEN 1 ELSE b * Pow(b, n - 1)

RS_calculateDelay(attempt) ==
  Min(RetryDelay * Pow(BackoffMultiplier, attempt - 1), RetryMaxDelay)

(***************************************************************************)
(* RateLimiter                                                             *)
(* queue holds the numbers of the acquire() calls whose promise is not     *)
(* resolved, in the order of their push.                                   *)
(***************************************************************************)
\* Math.ceil(a / b) for b > 0
CeilDiv(a, b) == -((-a) \div b)

\* maxRequests and windowMs are the fields of this.config
RL_new(t) ==
  [tokens |-> MaxRequests, lastRefillTime |-> t, queue |-> << >>,
   isProcessingQueue |-> FALSE, maxRequests |-> MaxRequests,
   windowMs |-> WindowMs]

RL_refillTokens(r, t) ==
  LET timeSinceLastRefill == t - r.lastRefillTime
      tokensToAdd == (timeSinceLastRefill * r.maxRequests) \div r.windowMs
  IN IF tokensToAdd > 0
       THEN [r EXCEPT !.tokens = Min(r.maxRequests, @ + tokensToAdd),
                      !.lastRefillTime = t]
       ELSE r

RL_getRetryAfter(r, t) ==
  IF r.tokens > 0 THEN 0
  ELSE LET timeSinceLastRefill == t - r.lastRefillTime
           timeUntilRefill == r.windowMs - timeSinceLastRefill
       IN CeilDiv(timeUntilRefill, 1000)

\* the while loop of processQueue() from its head to the next sleep() or to
\* its end: released are the calls resolved, wait the sleep's length in ms
\* (NoTime: the loop ended and isProcessingQueue is false again)
RECURSIVE RL_loop(_, _, _)
RL_loop(r, t, released) ==
  IF Len(r.queue) > 0
    THEN LET r1 == RL_refillTokens(r, t) IN
         IF r1.tokens = 0
           THEN [r |-> r1, released |-> released,
                 wait |-> RL_getRetryAfter(r1, t) * 1000]
           ELSE RL_loop([r1 EXCEPT !.queue = Tail(@), !.tokens = @ - 1],
                        t, Append(released, Head(r1.queue)))
    ELSE [r |-> [r EXCEPT !.isProcessingQueue = FALSE],
          released |-> released, wait |-> NoTime]

\* processQueue(): started tells whether a loop was started
RL_processQueue_unguarded(r, t) ==
  IF Len(r.queue) = 0
    THEN [r |-> r, released |-> << >>, wait |-> NoTime, started |-> FALSE]
    ELSE LET l == RL_loop([r EXCEPT !.isProcessingQueue = TRUE], t, << >>) IN
         [r |-> l.r, released |-> l.released, wait |-> l.wait, started |-> TRUE]

RL_processQueue(r, t) ==
  IF r.isProcessingQueue \/ Len(r.queue) = 0
    THEN [r |-> r, released |-> << >>, wait |-> NoTime, started |-> FALSE]
    ELSE LET l == RL_loop([r EXCEPT !.isProcessingQueue = TRUE], t, << >>) IN
         [r |-> l.r, released |-> l.released, wait |-> l.wait, started |-> TRUE]

\* acquire() by call number id: granted tells whether it returns at once
RL_acquire(r, t, id) ==
  LET r1 == RL_refillTokens(r, t) IN
  IF r1.tokens > 0
    THEN [r |-> [r1 EXCEPT !.tokens = @ - 1], granted |-> TRUE,
          released |-> << >>, wait |-> NoTime, started |-> FALSE]
    ELSE LET p == RL_processQueue([r1 EXCEPT !.queue = Append(@, id)], t) IN
         [r |-> p.r, granted |-> FALSE, released |-> p.released,
          wait |-> p.wait, started |-> p.started]

\* tryAcquire(): ok is its result
RL_tryAcquire(r, t) ==
  LET r1 == RL_refillTokens(r, t) IN
  IF r1.tokens > 0
    THEN [r |-> [r1 EXCEPT !.tokens = @ - 1], ok |-> TRUE]
    ELSE [r |-> r1, ok |-> FALSE]

\* acquireOrThrow(): thrown tells whether RateLimitError.exceeded is thrown,
\* retryAfter is the value it carries
RL_acquireOrThrow(r, t) ==
  LET a == RL_tryAcquire(r, t) IN
  IF ~a.ok
    THEN [r |-> a.r, thrown |-> TRUE, retryAfter |-> RL_getRetryAfter(a.r, t)]
    ELSE [r |-> a.r, thrown |-> FALSE, retryAfter |-> NoTime]

RL_reset(r, t) ==
  [r EXCEPT !.tokens = r.maxRequests, !.lastRefillTime = t, !.queue = << >>]

RL_updateConfig_noclamp(r, maxRequests, windowMs) ==
  [r EXCEPT !.maxRequests = maxRequests, !.windowMs = windowMs]

\* updateConfig(config): maxRequests and windowMs are the fields of the
\* merged configuration
RL_updateConfig(r, maxRequests, windowMs) ==
  [r EXCEPT !.maxRequests = maxRequests, !.windowMs = windowMs,
            !.tokens = Min(@, maxRequests)]

(***************************************************************************)
(* HttpClient                                                              *)
(* What the transport (axios) settles a call with is [axios, response,     *)
(* code, timeoutMsg]: an AxiosError with or without a response, or another *)
(* thrown value. A connector error is [name, code, statusCode, response]:  *)
(* no ConnectorError class has a response property.                        *)
(***************************************************************************)
HC_transformError(e, timeoutMs) ==
  IF e.axios
    THEN IF e.response = NoStatus
           THEN [name |-> "RequestError", code |-> "REQUEST_ERROR",
                 statusCode |-> 503, response |-> NoStatus]
           ELSE [name |-> "RequestError", code |-> "REQUEST_ERROR",
                 statusCode |-> e.response, response |-> NoStatus]
    ELSE IF e.timeoutMsg
           THEN [name |-> "ConnectionError", code |-> "CONNECTION_ERROR",
                 statusCode |-> 503, response |-> NoStatus]
           ELSE [name |-> "RequestError", code |-> "REQUEST_ERROR",
                 statusCode |-> 500, response |-> NoStatus]

\* the response interceptor's error handler: refresh the token and replay,
\* or reject with the error
HC_onResponseError(e, refreshable) ==
  IF e.response = 401 /\ refreshable THEN "refresh" ELSE "reject"

\* request(): retry unless options.retry === false; the catch block of
\* RetryStrategy.execute on the transformed error
HC_onRequestError(err, retry, attempt) ==
  IF retry /\ RS_shouldRetry(err, attempt, DefaultAttempts)
    THEN "sleep" ELSE "throw"

NoOutcome == [kind |-> "none", status |-> NoStatus]

HC_idle ==
  [pc |-> "idle", retry |-> TRUE, attempt |-> 0, tok |-> 0, cbSeen |-> FALSE,
   cbRec |-> 0, calls |-> 0, refreshes |-> 0, last |-> NoStatus,
   thrown |-> "", out |-> NoOutcome]

HC_enter_unguarded(q, b, t) ==
  [q |-> [q EXCEPT !.pc = "transport", !.cbSeen = TRUE, !.attempt = 1,
                   !.calls = @ + 1],
   b |-> b]

\* circuitBreaker.execute(...) is entered for request q: the breaker rejects,
\* or the retry loop makes its first transport call
HC_enter(q, b, t) ==
  LET r == CB_executeEntry(b, t) IN
  IF r.admitted
    THEN [q |-> [q EXCEPT !.pc = "transport", !.cbSeen = TRUE, !.attempt = 1,
                          !.calls = @ + 1],
          b |-> r.b]
    ELSE [q |-> [q EXCEPT !.pc = "done", !.cbSeen = TRUE,
                          !.out = [kind |-> "CircuitBreakerError",
                                   status |-> 503]],
          b |-> r.b]

(***************************************************************************)
(* HttpClient request helpers                                              *)
(* An argument that is an object literal or undefined is [given, headers,  *)
(* validateStatus]; headers is a set of <<name, value>>. The options       *)
(* handed to HttpClient.request are [method, url, params, data, headers,   *)
(* validateStatus].                                                        *)
(***************************************************************************)
Undefined == [given |-> FALSE, headers |-> {}, validateStatus |-> FALSE]
Obj(h, v) == [given |-> TRUE, headers |-> h, validateStatus |-> v]
NoRequest ==
  [method |-> "", url |-> "", params |-> Undefined, data |-> "",
   headers |-> {}, validateStatus |-> FALSE]

\* { method, url, params, ...options }
HC_get(url, params, options) ==
  [method |-> "GET", url |-> url, params |-> params, data |-> "",
   headers |-> options.headers, validateStatus |-> options.validateStatus]

\* { method, url, data, ...options }
HC_post(url, data, options) ==
  [method |-> "POST", url |-> url, params |-> Undefined, data |-> data,
   headers |-> options.headers, validateStatus |-> options.validateStatus]

HC_put(url, data, options) ==
  [method |-> "PUT", url |-> url, params |-> Undefined, data |-> data,
   headers |-> options.headers, validateStatus |-> options.validateStatus]

HC_patch(url, data, options) ==
  [method |-> "PATCH", url |-> url, params |-> Undefined, data |-> data,
   headers |-> options.headers, validateStatus |-> options.validateStatus]

\* { method, url, ...options }
HC_delete(url, options) ==
  [method |-> "DELETE", url |-> url, params |-> Undefined, data |-> "",
   headers |-> options.headers, validateStatus |-> options.validateStatus]

(***************************************************************************)
(* BaseConnector                                                           *)
(* The connector object is [status, connectedAt, metrics, csrfToken,       *)
(* metadata]; the last two are the fields ODataConnector adds. A step of a *)
(* method gives [c, ev, res, pc]: the object, the events emitted, the      *)
(* value or error the call settles with ("" while it is pending) and the   *)
(* await at which it is suspended ("idle" when it has settled).            *)
(***************************************************************************)
NoToken == ""
\* fetchedAt is history: the time at which the token was received
NoCsrf == [token |-> NoToken, expiresAt |-> NoTime, fetchedAt |-> NoTime]

CN_new ==
  [status |-> "disconnected", connectedAt |-> NoTime,
   metrics |-> [totalRequests |-> 0, successfulRequests |-> 0,
                failedRequests |-> 0, rateLimitHits |-> 0,
                circuitBreakerOpens |-> 0],
   csrfToken |-> NoCsrf, metadata |-> FALSE]

\* EventEmitter.emit: an `error` event without a listener is thrown
CN_emitThrows(cfg, ev) == ev = "error" /\ ~cfg.errListener

CN_isConnected(c) == c.status = "connected"

CN_connect_unguarded(c) ==
  [c |-> [c EXCEPT !.status = "connecting"], ev |-> <<"connecting">>,
   res |-> "", pc |-> "auth"]

CN_connect_quiet(c) ==
  IF c.status = "connected"
    THEN [c |-> c, ev |-> << >>, res |-> "ConnectionError:alreadyConnected",
          pc |-> "idle"]
    ELSE [c |-> c, ev |-> << >>, res |-> "", pc |-> "auth"]

\* connect() up to `await this.authHandler.authenticate(...)`
CN_connect(c) ==
  IF c.status = "connected"
    THEN [c |-> c, ev |-> << >>, res |-> "ConnectionError:alreadyConnected",
          pc |-> "idle"]
    ELSE [c |-> [c EXCEPT !.status = "connecting"], ev |-> <<"connecting">>,
          res |-> "", pc |-> "auth"]

\* the catch block of connect()
CN_connectFailed(c, cfg, error) ==
  [c |-> [c EXCEPT !.status = "error"], ev |-> <<"error">>,
   res |-> IF CN_emitThrows(cfg, "error") THEN "ERR_UNHANDLED_ERROR" ELSE error,
   pc |-> "idle"]

\* connect() after `await this.onConnect()`
CN_connected(c, t) ==
  [c |-> [c EXCEPT !.status = "connected", !.connectedAt = t],
   ev |-> <<"connected">>, res |-> "ok", pc |-> "idle"]

\* ConnectionTester.testConnection: the probe's error is caught
CT_testConnection(resolved) == [success |-> resolved]

\* disconnect() up to `await this.onDisconnect()`; hooked is the object as
\* the synchronous part of the hook leaves it
CN_disconnect(c, hooked) ==
  IF c.status = "disconnected"
    THEN [c |-> c, ev |-> << >>, res |-> "ok", pc |-> "idle"]
    ELSE [c |-> hooked, ev |-> << >>, res |-> "", pc |-> "dhook"]

CN_disconnected_keeps(c) ==
  [c |-> [c EXCEPT !.status = "disconnected"],
   ev |-> <<"disconnected">>, res |-> "ok", pc |-> "idle"]

CN_disconnected_resets(c) ==
  [c |-> [c EXCEPT !.status = "disconnected", !.connectedAt = NoTime,
                   !.metrics = CN_new.metrics],
   ev |-> <<"disconnected">>, res |-> "ok", pc |-> "idle"]

\* disconnect() after `await this.onDisconnect()`
CN_disconnected(c) ==
  [c |-> [c EXCEPT !.status = "disconnected", !.connectedAt = NoTime],
   ev |-> <<"disconnected">>, res |-> "ok", pc |-> "idle"]

CN_getMetrics(c, t) ==
  [totalRequests |-> c.metrics.totalRequests,
   successfulRequests |-> c.metrics.successfulRequests,
   failedRequests |-> c.metrics.failedRequests,
   rateLimitHits |-> c.metrics.rateLimitHits,
   circuitBreakerOpens |-> c.metrics.circuitBreakerOpens,
   uptime |-> IF c.connectedAt # NoTime THEN t - c.connectedAt ELSE 0]

\* the listeners of setupRateLimiterEvents / setupCircuitBreakerEvents
CN_onRateLimitHit(c) == [c EXCEPT !.metrics.rateLimitHits = @ + 1]
CN_onCircuitBreakerOpen(c) == [c EXCEPT !.metrics.circuitBreakerOpens = @ + 1]

\* request() up to `await this.httpClient.request(options)`
CN_request(c, options) ==
  IF ~CN_isConnected(c)
    THEN [c |-> c, res |-> "ConnectionError:notConnected", pc |-> "idle",
          req |-> NoRequest]
    ELSE [c |-> [c EXCEPT !.metrics.totalRequests = @ + 1], res |-> "",
          pc |-> "http", req |-> options]

CN_requestDone_uncounted(c, resolved) ==
  IF resolved
    THEN [c EXCEPT !.metrics.successfulRequests = @ + 1]
    ELSE c

\* request() after the await
CN_requestDone(c, resolved) ==
  IF resolved
    THEN [c EXCEPT !.metrics.successfulRequests = @ + 1]
    ELSE [c EXCEPT !.metrics.failedRequests = @ + 1]

(***************************************************************************)
(* ODataConnector                                                          *)
(***************************************************************************)
CsrfLifetime == 30 * 60 * 1000
Tokens == {"tokA", "tokB"}
Versions == {"2.0", "4.0"}
FetchHeader == <<"X-CSRF-Token", "Fetch">>

OD_fetchCSRFToken ==
  HC_get("/", Obj({FetchHeader}, TRUE), Undefined)

\* fetchCSRFToken() after the await: tok is the x-csrf-token response header
OD_csrfFetched(c, t, tok) ==
  IF tok # NoToken
    THEN [c EXCEPT !.csrfToken = [token |-> tok, expiresAt |-> t + CsrfLifetime,
                                  fetchedAt |-> t]]
    ELSE c

OD_getCSRFHeaders_stale(c, t) ==
  IF c.csrfToken = NoCsrf THEN {}
  ELSE {<<"X-CSRF-Token", c.csrfToken.token>>}

OD_getCSRFHeaders(c, t) ==
  IF c.csrfToken = NoCsrf THEN {}
  ELSE IF c.csrfToken.expiresAt < t THEN {}
  ELSE {<<"X-CSRF-Token", c.csrfToken.token>>}

\* the condition of ensureCSRFToken()
OD_needsCSRFToken(c, t) ==
  c.csrfToken = NoCsrf \/ c.csrfToken.expiresAt < t

OD_getODataHeaders(version) ==
  {<<"Accept", "application/json">>, <<"Content-Type", "application/json">>}
  \cup (IF version = "4.0"
          THEN {<<"OData-Version", "4.0">>, <<"OData-MaxVersion", "4.0">>}
          ELSE {<<"DataServiceVersion", "2.0">>,
                <<"MaxDataServiceVersion", "2.0">>})

OD_fetchMetadata ==
  HC_get("/$metadata", Obj({<<"Accept", "application/xml">>}, FALSE), Undefined)

OD_onDisconnect(c) == [c EXCEPT !.csrfToken = NoCsrf, !.metadata = FALSE]

ODWrites ==
  {"createEntity", "updateEntity", "patchEntity", "deleteEntity", "callAction",
   "batch"}
ODReads == {"query", "getEntity", "count", "callFunction", "getAll"}

\* the request of an entity operation, once the CSRF token is ensured
OD_send(op, c, t, version) ==
  LET odata == OD_getODataHeaders(version)
      csrf == OD_getCSRFHeaders(c, t)
  IN CASE op = "createEntity" ->
            HC_post("/set", "data", Obj(odata \cup csrf, FALSE))
       [] op = "updateEntity" ->
            HC_put("/set(key)", "data", Obj(odata \cup csrf, FALSE))
       [] op = "patchEntity" ->
            HC_patch("/set(key)", "data", Obj(odata \cup csrf, FALSE))
       [] op = "deleteEntity" ->
            HC_delete("/set(key)", Obj(odata \cup csrf, FALSE))
       [] op = "callAction" ->
            HC_post("/action", "data", Obj(odata \cup csrf, FALSE))
       [] op = "batch" ->
            HC_post("/$batch", "batchBody",
                    Obj({<<"Content-Type", "multipart/mixed">>} \cup csrf, FALSE))
       [] op = "count" ->
            HC_get("/set/$count", Obj(odata, FALSE), Undefined)
       [] op = "getEntity" ->
            HC_get("/set(key)", Obj(odata, FALSE), Undefined)
       [] op = "callFunction" ->
            HC_get("/function", Obj(odata, FALSE), Undefined)
       [] OTHER -> HC_get("/set", Obj(odata, FALSE), Undefined)

----------------------------------------------------------------------------
(***************************************************************************)
(* The circuit breaker under concurrent execute(fn) calls.                 *)
(***************************************************************************)
InitClock == now = 0

\* the RateLimiter as constructed at time 0
InitRL ==
  /\ rl = RL_new(0)
  /\ rlLoops = << >>
  /\ rlNextId = 1
  /\ rlOut = "none"
  /\ rlReleased = << >>
  /\ rlHist = [lastAcq |-> NoTime, spaced |-> TRUE, reset |-> FALSE,
               updates |-> 0]
  /\ rlErr = NoTime

\* no HttpClient.request call is made
IdleH ==
  /\ hCfg = [limited |-> FALSE, refreshable |-> FALSE]
  /\ hReq = [r \in 1..MaxSlots |-> HC_idle]

\* a call slot of the connector: the await it is suspended at, the method,
\* what the call has done so far, the pages getAll has requested
CN_idle == [pc |-> "idle", op |-> "", tr |-> << >>, n |-> 0]

NoOut ==
  [step |-> "none", op |-> "", res |-> "", ev |-> << >>, req |-> NoRequest,
   tr |-> << >>, tok |-> NoToken]

\* the connector as constructed, no call made
NewCN ==
  /\ cn = CN_new
  /\ cnCalls = [s \in 1..CnSlots |-> CN_idle]
  /\ cnStarted = 0
  /\ cnOut = NoOut
  /\ cnDisconnected = 0

\* the credentials object no handler was built from
NoCredentials ==
  [type |-> "", accessToken |-> "", refreshToken |-> "", expiresAt |-> -1,
   token |-> ""]
NoConfig == [baseUrl |-> "", credentials |-> 0]
NoAuthOut ==
  [step |-> "none", res |-> "", net |-> "none", headers |-> {},
   resp |-> [access_token |-> "", refresh_token |-> "", expires_in |-> 0]]

\* no auth handler is in use
IdleAU ==
  /\ au = [heap |-> [r \in {1, 2} |-> NoCredentials], config |-> NoConfig,
           handler |-> 0, returned |-> NoConfig, pc |-> "idle",
           viaAuth |-> FALSE]
  /\ auOut = NoAuthOut

ConnectionIds == {"c1", "c2"}
\* no connector instance
NoConnector == 0
UserIds == {"u1", "u2"}
\* the userId of the ERPConnection document of each connection id
Owner == [i \in ConnectionIds |-> IF i = "c1" THEN "u1" ELSE "u2"]
CS_idle == [pc |-> "idle", op |-> "", id |-> "", user |-> "",
            connector |-> NoConnector]
NoCSOut == [step |-> "none", op |-> "", id |-> "", user |-> "",
            connector |-> NoConnector, res |-> ""]

\* the ConnectorService singleton as constructed: an empty connectors map.
\* created numbers the connector instances; obtained is history, the
\* instances handed to callers since the entry of an id was last absent
IdleCS ==
  /\ cs = [connectors |-> [i \in ConnectionIds |-> NoConnector],
           calls |-> [k \in 1..CsSlots |-> CS_idle],
           created |-> 0, started |-> 0,
           obtained |-> [i \in ConnectionIds |-> {}]]
  /\ csOut = NoCSOut

\* no getAllData / getAll call is made. requests, sizes and nexts are
\* history: the pages requested, the length of the data of each response,
\* whether it had a nextLink
PG_idle ==
  [kind |-> "", autoPaginate |-> FALSE, maxPages |-> 0, limit |-> 0,
   page |-> 0, format |-> "", pc |-> "idle", i |-> 0, currentPage |-> 0,
   allData |-> << >>, requests |-> << >>, sizes |-> << >>, nexts |-> << >>,
   result |-> << >>]

IdlePG == pg = PG_idle

\* no filter is built
QB_idle ==
  [version |-> "", field |-> "", operator |-> "", value |-> << >>,
   isArray |-> FALSE, negate |-> FALSE, built |-> FALSE, filterStr |-> << >>]

IdleQB == qb = QB_idle

\* no document is parsed
MP_idle ==
  [doc |-> [malformed |-> FALSE, root |-> "", version |-> "",
            dataServices |-> FALSE, types |-> 0,
            hasKey |-> FALSE, refs |-> 0, props |-> 0],
   parsed |-> FALSE, threw |-> FALSE, thrown |-> FALSE, entityTypes |-> << >>]

IdleMP == mp = MP_idle

IdleExt == IdleAU /\ IdleCS /\ IdlePG /\ IdleQB /\ IdleMP

IdleCN ==
  /\ cnCfg = [kind |-> "base", csrf |-> FALSE, errListener |-> TRUE,
              version |-> "4.0"]
  /\ NewCN

\* no RetryStrategy.execute call is made
IdleRT ==
  /\ rtAttempts = 0
  /\ rtScript = << >>
  /\ rtPc = "idle"
  /\ rtAttempt = 0
  /\ rtLastError = NoError
  /\ rtSleeps = << >>
  /\ rtInvocations = 0
  /\ rtSettled = NoError

InitCB ==
  /\ cb = CB_new
  /\ cbInflight = 0
  /\ cbOut = "none"
  /\ cbErrTime = NoTime
  /\ cbEmit = "none"
  /\ cbConsecFail = 0
  /\ cbHalfOpenSucc = 0

\* execute(fn) is called: the state check, and fn() is started or the call rejects
CBExecute ==
  LET r == CB_executeEntry(cb, now) IN
  /\ r.admitted => cbInflight < MaxInflight
  /\ cb' = r.b
  /\ cbEmit' = r.ev
  /\ cbInflight' = IF r.admitted THEN cbInflight + 1 ELSE cbInflight
  /\ cbOut' = IF r.admitted THEN "invoked" ELSE "rejected"
  /\ cbErrTime' = r.errTime
  /\ cbHalfOpenSucc' = IF r.ev = "half_open" THEN 0 ELSE cbHalfOpenSucc
  /\ UNCHANGED <<now, cbConsecFail>>
  /\ UNCHANGED nonCB

\* the fn() of one call in flight resolves: onSuccess(), the result is returned
CBFnSucceeds ==
  LET r == CB_onSuccess(cb, now) IN
  /\ cbInflight > 0
  /\ cb' = r.b
  /\ cbEmit' = r.ev
  /\ cbInflight' = cbInflight - 1
  /\ cbOut' = "returned"
  /\ cbErrTime' = NoTime
  /\ cbConsecFail' = 0
  /\ cbHalfOpenSucc' = IF cb.state = "half_open"
                         THEN Min(cbHalfOpenSucc + 1, SuccessThreshold + 1)
                         ELSE cbHalfOpenSucc
  /\ UNCHANGED now
  /\ UNCHANGED nonCB

\* the fn() of one call in flight rejects: onFailure(), the error is rethrown
CBFnFails ==
  LET r == CB_onFailure(cb, now) IN
  /\ cbInflight > 0
  /\ cb' = r.b
  /\ cbEmit' = r.ev
  /\ cbInflight' = cbInflight - 1
  /\ cbOut' = "threw"
  /\ cbErrTime' = NoTime
  /\ cbConsecFail' = Min(cbConsecFail + 1, FailureThreshold + 1)
  /\ UNCHANGED <<now, cbHalfOpenSucc>>
  /\ UNCHANGED nonCB

CBReset ==
  LET r == CB_reset(cb) IN
  /\ cb' = r.b
  /\ cbEmit' = r.ev
  /\ cbOut' = "none"
  /\ cbErrTime' = NoTime
  /\ cbConsecFail' = 0
  /\ UNCHANGED <<now, cbInflight, cbHalfOpenSucc>>
  /\ UNCHANGED nonCB

CBTick ==
  /\ now < MaxTime
  /\ now' = now + TickMs
  /\ cbOut' = "none"
  /\ cbEmit' = "none"
  /\ cbErrTime' = NoTime
  /\ UNCHANGED <<cb, cbInflight, cbConsecFail, cbHalfOpenSucc>>
  /\ UNCHANGED nonCB

NextCB == CBExecute \/ CBFnSucceeds \/ CBFnFails \/ CBReset \/ CBTick

InitSpecCB == InitClock /\ InitCB /\ IdleRT /\ InitRL /\ IdleH /\ IdleCN /\ IdleExt

SpecCB == InitSpecCB /\ [][NextCB]_vars

----------------------------------------------------------------------------
\* a step in which execute(fn) was called
CBExecuteStep == cbOut' \in {"invoked", "rejected"}
CBBeforeNextAttempt ==
  cb.state = "open" /\ cb.nextAttemptTime # NoTime /\ now < cb.nextAttemptTime

(***************************************************************************)
(* C1: starting CLOSED, once failureThreshold executions have failed with  *)
(* no success in between (one after another or in flight together) the     *)
(* breaker is not CLOSED any more: the failure that completes the count    *)
(* opens it; and every execute(fn) called while OPEN and before            *)
(* nextAttemptTime rejects with a CircuitBreakerError that carries         *)
(* nextAttemptTime, without invoking fn and without changing the breaker.  *)
(***************************************************************************)
C1_TripsAndFailsFast ==
  /\ [](cb.state = "closed" => cbConsecFail < FailureThreshold)
  /\ [][ /\ (cb.state = "closed" /\ cbOut' = "threw"
              /\ cbConsecFail' >= FailureThreshold)
            => (cb'.state = "open" /\ cb'.nextAttemptTime = now + Timeout)
         /\ (CBBeforeNextAttempt /\ CBExecuteStep)
            => /\ cbOut' = "rejected"
               /\ cbErrTime' = cb.nextAttemptTime
               /\ cbInflight' = cbInflight
               /\ cb' = cb ]_vars

C1_Witness ==
  /\ cb.state = "open"
  /\ cbConsecFail >= FailureThreshold
  /\ cbOut = "rejected"
  /\ cbErrTime = cb.nextAttemptTime
  /\ now < cb.nextAttemptTime

(***************************************************************************)
(* C2: when the state is OPEN and the time has reached nextAttemptTime,    *)
(* the next execute(fn) moves the state to HALF_OPEN, emits half_open,     *)
(* resets successCount and failureCount to 0 and invokes fn; and the state *)
(* leaves OPEN only that way or through reset().                           *)
(***************************************************************************)
C2_HalfOpenAfterTimeout ==
  [][ /\ (cb.state = "open" /\ cb.nextAttemptTime # NoTime
          /\ now >= cb.nextAttemptTime /\ CBExecuteStep)
        => /\ cb'.state = "half_open"
           /\ cbEmit' = "half_open"
           /\ cb'.successCount = 0
           /\ cb'.failureCount = 0
           /\ cbOut' = "invoked"
           /\ cbInflight' = cbInflight + 1
      /\ (cb.state = "open" /\ cb'.state # "open")
        => \/ cbEmit' = "reset" /\ cb'.state = "closed"
           \/ /\ now >= cb.nextAttemptTime
              /\ cb'.state = "half_open"
              /\ cbOut' = "invoked" ]_vars

C2_Witness ==
  /\ cb.state = "half_open"
  /\ cbEmit = "half_open"
  /\ cbOut = "invoked"
  /\ cb.nextAttemptTime # NoTime
  /\ now >= cb.nextAttemptTime

(***************************************************************************)
(* C3: in HALF_OPEN any failed execution opens the breaker at once, with   *)
(* nextAttemptTime = now + timeout; a successful execution closes it       *)
(* exactly when it is the successThreshold-th success since HALF_OPEN was  *)
(* entered; and on closing failureCount and successCount are 0 and         *)
(* nextAttemptTime is cleared.                                             *)
(***************************************************************************)
C3_HalfOpenOutcome ==
  [][ /\ (cb.state = "half_open" /\ cbOut' = "threw")
        => (cb'.state = "open" /\ cb'.nextAttemptTime = now + Timeout)
      /\ (cb.state = "half_open" /\ cbOut' = "returned")
        => /\ (cb'.state = "closed") <=> (cbHalfOpenSucc' = SuccessThreshold)
           /\ cb'.state \in {"closed", "half_open"}
      /\ (cb.state = "half_open" /\ cb'.state = "closed" /\ cbEmit' # "reset")
        => /\ cbOut' = "returned"
           /\ cbEmit' = "close"
           /\ cb'.failureCount = 0
           /\ cb'.successCount = 0
           /\ cb'.nextAttemptTime = NoTime ]_vars

C3_Witness ==
  /\ cb.state = "closed"
  /\ cbEmit = "close"
  /\ cbOut = "returned"
  /\ cbHalfOpenSucc = SuccessThreshold
  /\ cbInflight > 0

----------------------------------------------------------------------------
(***************************************************************************)
(* RetryStrategy.execute(fn) called on its own, for every fn that settles  *)
(* its k-th invocation as rtScript[k] says.                                *)
(***************************************************************************)
\* what one invocation of fn may settle with: a value, or an error
Outcomes ==
  { [ok |-> TRUE,  response |-> NoStatus, code |-> ""],
    [ok |-> FALSE, response |-> 503, code |-> ""],
    [ok |-> FALSE, response |-> 400, code |-> ""],
    [ok |-> FALSE, response |-> NoStatus, code |-> "ETIMEDOUT"],
    [ok |-> FALSE, response |-> NoStatus, code |-> "REQUEST_ERROR"],
    [ok |-> FALSE, response |-> NoStatus, code |-> ""] }

Scripts == [1..MaxAttempts -> Outcomes]

\* the object the k-th invocation settles with
Settles(script, k) ==
  [id |-> k, response |-> script[k].response, code |-> script[k].code]

InitRT ==
  /\ rtAttempts \in 0..MaxAttempts
  /\ rtScript \in Scripts
  /\ rtPc = "loop"
  /\ rtAttempt = 0
  /\ rtLastError = NoError
  /\ rtSleeps = << >>
  /\ rtInvocations = 0
  /\ rtSettled = NoError

\* while (attempt < attempts): attempt++, fn() is invoked and awaited
RTInvoke ==
  /\ rtPc = "loop"
  /\ rtAttempt < rtAttempts
  /\ rtAttempt' = rtAttempt + 1
  /\ rtInvocations' = rtInvocations + 1
  /\ rtPc' = "awaiting"
  /\ UNCHANGED <<rtAttempts, rtScript, rtLastError, rtSleeps, rtSettled>>
  /\ UNCHANGED nonRT

\* fn() resolves: its value is returned
RTResolve ==
  /\ rtPc = "awaiting"
  /\ rtScript[rtInvocations].ok
  /\ rtSettled' = Settles(rtScript, rtInvocations)
  /\ rtPc' = "returned"
  /\ UNCHANGED <<rtAttempts, rtScript, rtAttempt, rtLastError, rtSleeps, rtInvocations>>
  /\ UNCHANGED nonRT

\* fn() rejects: the catch block, which rethrows or starts the sleep
RTCatch ==
  LET e == Settles(rtScript, rtInvocations) IN
  /\ rtPc = "awaiting"
  /\ ~rtScript[rtInvocations].ok
  /\ rtLastError' = e
  /\ IF ~RS_shouldRetry(e, rtAttempt, rtAttempts)
       THEN /\ rtSettled' = e
            /\ rtPc' = "thrown"
            /\ UNCHANGED rtSleeps
       ELSE /\ rtSleeps' = Append(rtSleeps, RS_calculateDelay(rtAttempt))
            /\ rtPc' = "sleeping"
            /\ UNCHANGED rtSettled
  /\ UNCHANGED <<rtAttempts, rtScript, rtAttempt, rtInvocations>>
  /\ UNCHANGED nonRT

\* the sleep's timer fires
RTWake ==
  /\ rtPc = "sleeping"
  /\ rtPc' = "loop"
  /\ UNCHANGED <<rtAttempts, rtScript, rtAttempt, rtLastError, rtSleeps,
                 rtInvocations, rtSettled>>
  /\ UNCHANGED nonRT

\* the loop ends with attempt >= attempts: throw lastError
RTExhausted ==
  /\ rtPc = "loop"
  /\ ~(rtAttempt < rtAttempts)
  /\ rtSettled' = rtLastError
  /\ rtPc' = "thrown"
  /\ UNCHANGED <<rtAttempts, rtScript, rtAttempt, rtLastError, rtSleeps, rtInvocations>>
  /\ UNCHANGED nonRT

NextRT == RTInvoke \/ RTResolve \/ RTCatch \/ RTWake \/ RTExhausted

InitSpecRT == InitClock /\ InitCB /\ InitRT /\ InitRL /\ IdleH /\ IdleCN /\ IdleExt

SpecRT == InitSpecRT /\ [][NextRT]_vars

\* promises settle and timers fire: the event loop leaves no enabled step undone
SpecRTFair == InitSpecRT /\ [][NextRT]_vars /\ WF_vars(NextRT)

RTDone == rtPc \in {"returned", "thrown"}
Retryable(o) ==
  ~o.ok /\ (o.response \in RetryableStatuses \/ o.code \in RetryableErrors)
Status(o, st) == ~o.ok /\ o.response = st

(***************************************************************************)
(* C5: with attempts = 3, a function whose errors carry response status    *)
(* 503 on attempts 1 and 2 and which succeeds on attempt 3 ends with the   *)
(* success result of the third invocation after exactly 3 invocations; a   *)
(* function failing with response status 400 is invoked exactly once and   *)
(* that error is thrown.                                                   *)
(***************************************************************************)
C5_RetryScenarios ==
  (rtAttempts = DefaultAttempts /\ RTDone) =>
    /\ (Status(rtScript[1], 503) /\ Status(rtScript[2], 503) /\ rtScript[3].ok)
         => /\ rtPc = "returned"
            /\ rtInvocations = 3
            /\ rtSettled = Settles(rtScript, 3)
    /\ Status(rtScript[1], 400)
         => /\ rtPc = "thrown"
            /\ rtInvocations = 1
            /\ rtSettled = Settles(rtScript, 1)

C5_Witness ==
  /\ rtAttempts = DefaultAttempts
  /\ Status(rtScript[1], 503) /\ Status(rtScript[2], 503) /\ rtScript[3].ok
  /\ rtPc = "returned"
  /\ rtInvocations = 3
  /\ Len(rtSleeps) = 2

(***************************************************************************)
(* C6: execute(fn) invokes fn at most `attempts` times and always ends;    *)
(* when every attempt fails with a retryable error the error thrown is the *)
(* error object of the last attempt itself; and the first error that is    *)
(* neither a retryable status nor a retryable code is thrown at once: no   *)
(* sleep and no invocation follows it.                                     *)
(***************************************************************************)
C6_BoundedAndUnwrapped ==
  /\ [](rtInvocations <= rtAttempts)
  /\ <>RTDone
  /\ []((RTDone /\ rtAttempts >= 1
         /\ \A k \in 1..rtAttempts : Retryable(rtScript[k]))
        => /\ rtPc = "thrown"
           /\ rtInvocations = rtAttempts
           /\ rtSettled = Settles(rtScript, rtAttempts))
  /\ [](\A k \in 1..rtAttempts :
          (/\ ~rtScript[k].ok /\ ~Retryable(rtScript[k])
           /\ \A j \in 1..(k - 1) : Retryable(rtScript[j]))
          => /\ rtInvocations <= k
             /\ Len(rtSleeps) <= k - 1
             /\ RTDone => /\ rtPc = "thrown"
                          /\ rtInvocations = k
                          /\ rtSettled = Settles(rtScript, k))

C6_Witness ==
  /\ rtAttempts = MaxAttempts
  /\ \A k \in 1..rtAttempts : Retryable(rtScript[k])
  /\ rtPc = "thrown"
  /\ rtInvocations = rtAttempts
  /\ rtSettled.id = rtAttempts
  /\ Len(rtSleeps) = rtAttempts - 1

----------------------------------------------------------------------------
(***************************************************************************)
(* The rate limiter under acquire() calls, reset() and the passing of time.*)
(* A sleep's timer fires when its time has come: time does not pass a      *)
(* timer that is due.                                                      *)
(***************************************************************************)
Remove(seq, i) == SubSeq(seq, 1, i - 1) \o SubSeq(seq, i + 1, Len(seq))

Sleeps(loops, t, wait) ==
  IF wait = NoTime THEN loops
  ELSE Append(loops, [since |-> t, wake |-> t + wait])

\* acquire() is called
RLAcquire ==
  LET a == RL_acquire(rl, now, rlNextId) IN
  /\ rlNextId <= MaxCalls
  /\ rl' = a.r
  /\ rlLoops' = IF a.started THEN Sleeps(rlLoops, now, a.wait) ELSE rlLoops
  /\ rlNextId' = rlNextId + 1
  /\ rlOut' = IF a.granted THEN "granted" ELSE "queued"
  /\ rlReleased' = rlReleased \o a.released
  /\ rlHist' = [rlHist EXCEPT
                  !.lastAcq = now,
                  !.spaced = @ /\ (rlHist.lastAcq = NoTime
                       \/ (now - rlHist.lastAcq) * MaxRequests >= WindowMs)]
  /\ UNCHANGED now
  /\ UNCHANGED nonRL

\* the timer of a sleeping processQueue() fires: the loop goes on
RLWake ==
  \E i \in 1..Len(rlLoops) :
    LET l == RL_loop(rl, now, << >>) IN
    /\ rlLoops[i].wake <= now
    /\ rl' = l.r
    /\ rlLoops' = Sleeps(Remove(rlLoops, i), now, l.wait)
    /\ rlOut' = "loop"
    /\ rlReleased' = rlReleased \o l.released
    /\ UNCHANGED <<now, rlNextId, rlHist>>
    /\ UNCHANGED nonRL

RLReset ==
  /\ rl' = RL_reset(rl, now)
  /\ rlOut' = "reset"
  /\ rlHist' = [rlHist EXCEPT !.reset = TRUE]
  /\ UNCHANGED <<now, rlLoops, rlNextId, rlReleased>>
  /\ UNCHANGED nonRL

RLTick ==
  /\ now < MaxTime
  /\ \A i \in 1..Len(rlLoops) : rlLoops[i].wake > now
  /\ now' = now + TickMs
  /\ rlOut' = "none"
  /\ UNCHANGED <<rl, rlLoops, rlNextId, rlReleased, rlHist>>
  /\ UNCHANGED nonRL

NextRL == RLAcquire \/ RLWake \/ RLReset \/ RLTick

InitSpecRL == InitClock /\ InitCB /\ IdleRT /\ InitRL /\ IdleH /\ IdleCN /\ IdleExt

SpecRL == InitSpecRL /\ [][NextRL]_vars

\* acquireOrThrow() is called
RLAcquireOrThrow ==
  LET a == RL_acquireOrThrow(rl, now) IN
  /\ rlNextId <= MaxCalls
  /\ rl' = a.r
  /\ rlNextId' = rlNextId + 1
  /\ rlOut' = IF a.thrown THEN "thrown" ELSE "taken"
  /\ rlErr' = a.retryAfter
  /\ UNCHANGED <<now, rlLoops, rlReleased, rlHist>>
  /\ UNCHANGED <<cbVars, rtVars, hVars, cnVars, extVars>>

\* the rate limiter with waiting and non-waiting callers
NextRLT == NextRL \/ RLAcquireOrThrow

SpecRLT == InitSpecRL /\ [][NextRLT]_vars

\* updateConfig(config) is called with a maxRequests, a windowMs, or both
RLUpdateConfig ==
  /\ rlHist.updates < RlMaxUpdates
  /\ \E maxRequests \in (0..(MaxRequests + 1)) \cup {rl.maxRequests},
        windowMs \in {WindowMs, 2 * WindowMs, rl.windowMs} :
       rl' = RL_updateConfig(rl, maxRequests, windowMs)
  /\ rlOut' = "config"
  /\ rlHist' = [rlHist EXCEPT !.updates = @ + 1]
  /\ UNCHANGED <<now, rlLoops, rlNextId, rlReleased, rlErr>>
  /\ UNCHANGED <<cbVars, rtVars, hVars, cnVars, extVars>>

\* the rate limiter whose configuration is updated while it is in use
NextRLC == NextRLT \/ RLUpdateConfig

SpecRLC == InitSpecRL /\ [][NextRLC]_vars

\* milliseconds until refillTokens() next adds a token
NextRefillIn(r, t) == CeilDiv(WindowMs, MaxRequests) - (t - r.lastRefillTime)

(***************************************************************************)
(* C11: acquire() never rejects: it returns at once or it is queued;       *)
(* acquireOrThrow() throws RateLimitError exactly when no token is left    *)
(* after the refill, and then the token count, the queue and the queue's   *)
(* timers are what they were; the error's retryAfter is the time until the *)
(* next refill, in seconds (rounded up).                                   *)
(***************************************************************************)
C11_AcquireNeverRejects ==
  [][rlHist'.lastAcq # rlHist.lastAcq \/ Len(rl'.queue) > Len(rl.queue)
       => rlOut' \in {"granted", "queued"}]_vars

C11_ThrownExactlyWhenEmpty ==
  [][(rlOut' \in {"taken", "thrown"} /\ rlNextId' # rlNextId)
       => /\ (rlOut' = "thrown") <=> (RL_refillTokens(rl, now).tokens = 0)
          /\ (rlOut' = "thrown") =>
                /\ rl'.tokens = rl.tokens
                /\ rl'.queue = rl.queue
                /\ rlLoops' = rlLoops
                /\ rlErr' >= 1
          /\ (rlOut' = "taken") =>
                rl'.tokens = RL_refillTokens(rl, now).tokens - 1]_vars

C11_RetryAfterUntilNextRefill ==
  (rlOut = "thrown") => rlErr = CeilDiv(NextRefillIn(rl, now), 1000)

C11_RateLimitError ==
  /\ C11_AcquireNeverRejects
  /\ C11_ThrownExactlyWhenEmpty
  /\ []C11_RetryAfterUntilNextRefill

Increasing(seq) == \A i, j \in 1..Len(seq) : i < j => seq[i] < seq[j]
Range(seq) == {seq[i] : i \in 1..Len(seq)}
TimerDue == \E i \in 1..Len(rlLoops) : rlLoops[i].wake <= now
\* the first maxRequests+1 calls were made together, on the full bucket
BurstAtStart == ~rlHist.reset /\ rlHist.lastAcq = 0 /\ rlNextId = MaxRequests + 2

(***************************************************************************)
(* C9: on a full bucket, no acquire() of a sequence of calls spaced by at  *)
(* least windowMs/maxRequests blocks; of a burst of maxRequests+1 calls    *)
(* exactly the last blocks; and that call is released as soon as a partial *)
(* refill makes one token available: it is not still queued at a time when *)
(* a refill yields a token, unless the queue's timer is due at that very   *)
(* time.                                                                   *)
(***************************************************************************)
C9_SpacedCallsNeverBlock ==
  (rlOut = "queued") => ~rlHist.spaced

C9_BurstBlocksTheLast ==
  (~rlHist.reset /\ now = 0) =>
    /\ (rlNextId <= MaxRequests + 1) => rl.queue = << >>
    /\ (rlNextId = MaxRequests + 2) => rl.queue = <<MaxRequests + 1>>

C9_ReleasedAtPartialRefill ==
  (BurstAtStart /\ rl.queue # << >> /\ RL_refillTokens(rl, now).tokens >= 1)
    => TimerDue

C9_TokenBucket ==
  /\ C9_SpacedCallsNeverBlock
  /\ C9_BurstBlocksTheLast
  /\ C9_ReleasedAtPartialRefill

(***************************************************************************)
(* C10: blocked acquire() calls are released in the order in which they    *)
(* were queued (a release takes the head of the queue, and no call still   *)
(* queued is older than a released one), each release consumes one token,  *)
(* at most one processQueue() loop is alive at a time, and a loop that     *)
(* finds no token sleeps for a strictly positive time.                     *)
(***************************************************************************)
C10_QueueDiscipline ==
  /\ [](/\ Increasing(rlReleased)
        /\ Increasing(rl.queue)
        /\ \A q \in Range(rl.queue) : \A d \in Range(rlReleased) : d < q
        /\ Len(rlLoops) <= 1
        /\ rl.isProcessingQueue <=> (Len(rlLoops) = 1)
        /\ \A i \in 1..Len(rlLoops) : rlLoops[i].wake > rlLoops[i].since)
  /\ [][ LET n == Len(rlReleased') - Len(rlReleased) IN
         /\ n >= 0
         /\ rlReleased' = rlReleased \o SubSeq(rl.queue, 1, n)
         /\ n > 0 => /\ rl'.tokens = RL_refillTokens(rl, now).tokens - n
                     /\ rl'.tokens >= 0
                     /\ rl'.queue = SubSeq(rl.queue, n + 1, Len(rl.queue)) ]_vars

C10_Witness ==
  /\ Len(rlReleased) >= 2
  /\ rlOut = "loop"
  /\ ~rl.isProcessingQueue

----------------------------------------------------------------------------
(***************************************************************************)
(* HttpClient.request: concurrent requests through one rate limiter and    *)
(* one circuit breaker. A slot holds one request() call from its start to  *)
(* the settling of its promise.                                            *)
(***************************************************************************)
Slots == 1..MaxSlots

\* what the transport answers a call with
Answers ==
  { [axios |-> TRUE, response |-> 200, code |-> "", timeoutMsg |-> FALSE],
    [axios |-> TRUE, response |-> 400, code |-> "", timeoutMsg |-> FALSE],
    [axios |-> TRUE, response |-> 401, code |-> "", timeoutMsg |-> FALSE],
    [axios |-> TRUE, response |-> 503, code |-> "", timeoutMsg |-> FALSE],
    [axios |-> TRUE, response |-> NoStatus, code |-> "ECONNRESET",
     timeoutMsg |-> FALSE] }

\* validateStatus: a status of 2xx resolves the call
Resolves(a) == a.response >= 200 /\ a.response < 300

InitH ==
  /\ hCfg \in [limited : BOOLEAN, refreshable : BOOLEAN]
  /\ hReq = [r \in Slots |-> HC_idle]

\* request(options) is called: rateLimiter.acquire() when a limiter is given,
\* and without one circuitBreaker.execute at once
HRequest(r) ==
  \E retry \in BOOLEAN :
    LET q == [HC_idle EXCEPT !.retry = retry] IN
    /\ hReq[r].pc = "idle"
    /\ IF hCfg.limited
         THEN LET a == RL_acquire(rl, now, r) IN
              /\ rl' = a.r
              /\ rlLoops' = IF a.started THEN Sleeps(rlLoops, now, a.wait)
                            ELSE rlLoops
              /\ hReq' = [hReq EXCEPT ![r] =
                   IF a.granted
                     THEN [q EXCEPT !.pc = "acquired",
                            !.tok = RL_refillTokens(rl, now).tokens - a.r.tokens]
                     ELSE [q EXCEPT !.pc = "waitToken"]]
              /\ UNCHANGED cb
         ELSE LET e == HC_enter(q, cb, now) IN
              /\ hReq' = [hReq EXCEPT ![r] = e.q]
              /\ cb' = e.b
              /\ UNCHANGED <<rl, rlLoops>>
    /\ UNCHANGED <<now, hCfg>>
    /\ UNCHANGED nonH

\* the await of acquire() is over: circuitBreaker.execute; or the backoff
\* sleep of the retry loop is over: the next attempt's transport call
HProceed(r) ==
  /\ hReq[r].pc \in {"acquired", "sleeping"}
  /\ IF hReq[r].pc = "acquired"
       THEN LET e == HC_enter(hReq[r], cb, now) IN
            /\ hReq' = [hReq EXCEPT ![r] = e.q]
            /\ cb' = e.b
       ELSE /\ hReq' = [hReq EXCEPT ![r] =
                 [@ EXCEPT !.pc = "transport", !.attempt = @ + 1,
                           !.calls = @ + 1]]
            /\ UNCHANGED cb
  /\ UNCHANGED <<now, rl, rlLoops, hCfg>>
  /\ UNCHANGED nonH

\* the transport call settles
HRespond(r) ==
  \E a \in Answers :
    LET q == [hReq[r] EXCEPT !.last = a.response] IN
    /\ hReq[r].pc = "transport"
    /\ (a.response = 401 /\ hCfg.refreshable) => q.refreshes < MaxRefresh
    /\ IF Resolves(a)
         THEN LET s == CB_onSuccess(cb, now) IN
              /\ cb' = s.b
              /\ hReq' = [hReq EXCEPT ![r] =
                   [q EXCEPT !.pc = "done", !.cbRec = @ + 1,
                             !.out = [kind |-> "ok", status |-> a.response]]]
         ELSE IF HC_onResponseError(a, hCfg.refreshable) = "refresh"
           THEN /\ hReq' = [hReq EXCEPT ![r] = [q EXCEPT !.pc = "refreshing"]]
                /\ UNCHANGED cb
           ELSE LET err == HC_transformError(a, 30000) IN
                IF HC_onRequestError(err, q.retry, q.attempt) = "sleep"
                  THEN /\ hReq' = [hReq EXCEPT ![r] =
                            [q EXCEPT !.pc = "sleeping"]]
                       /\ UNCHANGED cb
                  ELSE LET f == CB_onFailure(cb, now) IN
                       /\ cb' = f.b
                       /\ hReq' = [hReq EXCEPT ![r] =
                            [q EXCEPT !.pc = "done", !.cbRec = @ + 1,
                               !.out = [kind |-> err.name,
                                        status |-> err.statusCode]]]
    /\ UNCHANGED <<now, rl, rlLoops, hCfg>>
    /\ UNCHANGED nonH

\* authHandler.refreshToken() settles: the original request is replayed
\* through this.client.request, or the 401 error is rejected
HRefreshed(r) ==
  \E ok \in BOOLEAN :
    /\ hReq[r].pc = "refreshing"
    /\ IF ok
         THEN /\ hReq' = [hReq EXCEPT ![r] =
                   [@ EXCEPT !.pc = "transport", !.refreshes = @ + 1,
                             !.calls = @ + 1]]
              /\ UNCHANGED cb
         ELSE LET a == [axios |-> TRUE, response |-> 401, code |-> "",
                        timeoutMsg |-> FALSE]
                  err == HC_transformError(a, 30000) IN
              IF HC_onRequestError(err, hReq[r].retry, hReq[r].attempt) = "sleep"
                THEN /\ hReq' = [hReq EXCEPT ![r] =
                          [@ EXCEPT !.pc = "sleeping", !.refreshes = @ + 1]]
                     /\ UNCHANGED cb
                ELSE LET f == CB_onFailure(cb, now) IN
                     /\ cb' = f.b
                     /\ hReq' = [hReq EXCEPT ![r] =
                          [@ EXCEPT !.pc = "done", !.cbRec = @ + 1,
                             !.refreshes = @ + 1,
                             !.out = [kind |-> err.name,
                                      status |-> err.statusCode]]]
    /\ UNCHANGED <<now, rl, rlLoops, hCfg>>
    /\ UNCHANGED nonH

\* the caller has the result: the slot is free for the next request
HReturn(r) ==
  /\ hReq[r].pc = "done"
  /\ hReq' = [hReq EXCEPT ![r] = HC_idle]
  /\ UNCHANGED <<now, cb, rl, rlLoops, hCfg>>
  /\ UNCHANGED nonH

\* the timer of the rate limiter's sleeping processQueue() fires
HQueueWake ==
  \E i \in 1..Len(rlLoops) :
    LET l == RL_loop(rl, now, << >>) IN
    /\ rlLoops[i].wake <= now
    /\ rl' = l.r
    /\ rlLoops' = Sleeps(Remove(rlLoops, i), now, l.wait)
    /\ hReq' = [r \in Slots |->
                 IF \E k \in 1..Len(l.released) : l.released[k] = r
                   THEN [hReq[r] EXCEPT !.pc = "acquired", !.tok = @ + 1]
                   ELSE hReq[r]]
    /\ UNCHANGED <<now, cb, hCfg>>
    /\ UNCHANGED nonH

HTick ==
  /\ now < MaxTime
  /\ \A i \in 1..Len(rlLoops) : rlLoops[i].wake > now
  /\ now' = now + TickMs
  /\ UNCHANGED <<cb, rl, rlLoops, hCfg, hReq>>
  /\ UNCHANGED nonH

NextH ==
  \/ \E r \in Slots : HRequest(r)
  \/ \E r \in Slots : HProceed(r)
  \/ \E r \in Slots : HRespond(r)
  \/ \E r \in Slots : HRefreshed(r)
  \/ \E r \in Slots : HReturn(r)
  \/ HQueueWake
  \/ HTick

InitSpecH == InitClock /\ InitCB /\ IdleRT /\ InitRL /\ InitH /\ IdleCN /\ IdleExt

SpecH == InitSpecH /\ [][NextH]_vars

----------------------------------------------------------------------------
\* pc values at which circuitBreaker.execute has not been called yet
BeforeBreaker == {"idle", "waitToken", "acquired"}
Replays(q) == q.calls - q.attempt

(***************************************************************************)
(* C4: with retry enabled, a request whose transport call failed with an   *)
(* HTTP response is retried exactly when the status is in {408, 429, 500,  *)
(* 502, 503, 504} and attempts remain: it ends with a RequestError of a    *)
(* retryable status only after all its attempts, with one of another       *)
(* status after that attempt; so a request answered 503 is not over after  *)
(* its first call (it asks again, and returns the 200 of the second).      *)
(***************************************************************************)
C4_RetryableStatusIsRetried ==
  \A r \in Slots :
    LET q == hReq[r] IN
    (q.pc = "done" /\ q.retry /\ q.out.kind = "RequestError"
       /\ q.last # NoStatus /\ q.refreshes = 0)
      => IF q.last \in RetryableStatuses
           THEN q.attempt = DefaultAttempts
           ELSE q.attempt = 1

(***************************************************************************)
(* C7: for one request answered 401 while the auth handler has             *)
(* refreshToken, at most one token refresh and at most one replay are      *)
(* made: a replay answered 401 again is surfaced with no further refresh   *)
(* or replay.                                                              *)
(***************************************************************************)
C7_OneRefreshOneReplay ==
  \A r \in Slots :
    /\ hReq[r].refreshes <= 1
    /\ Replays(hReq[r]) <= 1
    /\ hReq[r].pc = "refreshing" => hReq[r].refreshes = 0

(***************************************************************************)
(* C8: a request takes exactly one rate-limiter token (when a limiter is   *)
(* given) before the circuit breaker is consulted; the breaker records     *)
(* exactly one success or one failure per request that it admitted, at the *)
(* request's end, however many transport calls were made; and a request    *)
(* that consults the breaker while it is OPEN and before nextAttemptTime   *)
(* ends with CircuitBreakerError with no attempt and no transport call,    *)
(* leaving the breaker as it was.                                          *)
(***************************************************************************)
C8_PipelineOrder ==
  /\ [](\A r \in Slots :
          LET q == hReq[r] IN
          /\ q.tok <= 1
          /\ q.pc \in BeforeBreaker
               => (~q.cbSeen /\ q.cbRec = 0 /\ q.calls = 0 /\ q.attempt = 0)
          /\ q.pc \notin BeforeBreaker => q.cbSeen
          /\ q.cbSeen => q.tok = (IF hCfg.limited THEN 1 ELSE 0)
          /\ q.pc # "done" => q.cbRec = 0
          /\ q.pc = "done"
               => q.cbRec = (IF q.out.kind = "CircuitBreakerError" THEN 0 ELSE 1)
          /\ q.out.kind = "CircuitBreakerError" => (q.calls = 0 /\ q.attempt = 0))
  /\ [][ /\ \A r \in Slots :
              (CBBeforeNextAttempt /\ ~hReq[r].cbSeen /\ hReq'[r].cbSeen)
                => /\ hReq'[r].pc = "done"
                   /\ hReq'[r].out.kind = "CircuitBreakerError"
                   /\ hReq'[r].calls = 0
                   /\ hReq'[r].attempt = 0
                   /\ cb' = cb
         /\ (cb' # cb)
              => \E r \in Slots :
                   \/ hReq[r].pc # "done" /\ hReq'[r].pc = "done"
                        /\ hReq'[r].cbRec = 1
                   \/ ~hReq[r].cbSeen /\ hReq'[r].cbSeen
                        /\ cb.state = "open" /\ cb'.state = "half_open" ]_vars

C8_Witness ==
  \E r \in Slots :
    /\ hCfg.limited
    /\ hReq[r].pc = "done"
    /\ hReq[r].calls >= 2
    /\ hReq[r].cbRec = 1
    /\ hReq[r].tok = 1
    /\ cb.state = "open"

----------------------------------------------------------------------------
(***************************************************************************)
(* The connector under concurrent calls of connect(), disconnect() and of  *)
(* its request methods. A step runs a method from one await to the next;   *)
(* what a network call or a hook settles with is chosen when it settles.   *)
(* kind "base" is a subclass whose hooks may fail and that calls the       *)
(* protected helpers, "rest" is RESTConnector, "odata" is ODataConnector.  *)
(***************************************************************************)
Helpers == {"get", "post", "put", "patch", "delete"}
RESTOps ==
  {"getData", "createData", "updateData", "patchData", "deleteData",
   "makeRequest", "batchRequest", "getAllData"}

\* the options a protected helper hands to request()
BC_options(op) ==
  CASE op \in {"get", "getData", "getAllData", "makeRequest", "batchRequest"} ->
         [NoRequest EXCEPT !.method = "GET", !.url = "/path"]
    [] op \in {"post", "createData"} ->
         [NoRequest EXCEPT !.method = "POST", !.url = "/path", !.data = "data"]
    [] op \in {"put", "updateData"} ->
         [NoRequest EXCEPT !.method = "PUT", !.url = "/path", !.data = "data"]
    [] op \in {"patch", "patchData"} ->
         [NoRequest EXCEPT !.method = "PATCH", !.url = "/path", !.data = "data"]
    [] OTHER -> [NoRequest EXCEPT !.method = "DELETE", !.url = "/path"]

\* what a public REST method settles with when its helper rejects with err:
\* batchRequest turns the error into an item of status 500
REST_settle(op, err) ==
  IF op = "batchRequest" THEN "resolved:items(500)" ELSE err

Out(step, op, res, ev, req, tr, tok) ==
  [step |-> step, op |-> op, res |-> res, ev |-> ev, req |-> req, tr |-> tr,
   tok |-> tok]

FreeSlot(s) ==
  /\ cnCalls[s].pc = "idle"
  /\ cnStarted < (IF cnCfg.kind = "odata" THEN MaxODOps ELSE MaxOps)

\* the method whose frame waits at an await: the helpers and the REST
\* methods wait in request(), batchRequest() in its own catch block; an
\* entity operation whose request is sent does the same as the others when
\* the request settles, except getAll
Frame(op, pc) ==
  CASE op \in Helpers \cup (RESTOps \ {"batchRequest"}) -> "request"
    [] op \in (ODWrites \cup ODReads) \ {"getAll"} /\ pc = "send" -> "operation"
    [] OTHER -> op

\* a method's step a (see CN_connect) by the call in slot s
Settle(s, step, op, a, req, tr) ==
  /\ cn' = a.c
  /\ cnCalls' = [cnCalls EXCEPT ![s] =
                   IF a.pc = "idle" THEN CN_idle
                   ELSE [pc |-> a.pc, op |-> Frame(op, a.pc), tr |-> tr,
                         n |-> cnCalls[s].n]]
  /\ cnOut' = Out(step, op, a.res, a.ev, req, tr, NoToken)
  /\ cnDisconnected' = IF a.ev = <<"disconnected">> THEN cnDisconnected + 1
                       ELSE cnDisconnected

\* connect() is called
CNConnect(s) ==
  LET a == CN_connect(cn) IN
  /\ FreeSlot(s)
  /\ Settle(s, "connect", "connect", a, NoRequest,
            IF a.pc = "idle" THEN << >> ELSE a.ev \o <<"authenticate">>)
  /\ cnStarted' = cnStarted + 1
  /\ UNCHANGED <<now, cnCfg>>
  /\ UNCHANGED nonCN

\* authenticate() settles
CNAuthDone(s) ==
  /\ cnCalls[s].pc = "auth"
  /\ \E ok \in BOOLEAN :
       IF ok
         THEN Settle(s, "authDone", "connect",
                     [c |-> cn, ev |-> << >>, res |-> "", pc |-> "probe"],
                     HC_get("/health", Undefined, Obj({}, FALSE)),
                     cnCalls[s].tr \o <<"testConnection">>)
         ELSE LET a == CN_connectFailed(cn, cnCfg, "AuthenticationError") IN
              Settle(s, "authDone", "connect", a, NoRequest,
                     cnCalls[s].tr \o a.ev)
  /\ UNCHANGED <<now, cnCfg, cnStarted>>
  /\ UNCHANGED nonCN

\* the health probe settles; on success onConnect() is called
CNProbeDone(s) ==
  /\ cnCalls[s].pc = "probe"
  /\ \E resolved \in BOOLEAN :
       IF CT_testConnection(resolved).success
         THEN LET tr == cnCalls[s].tr \o <<"onConnect">> IN
              CASE cnCfg.kind = "odata" /\ cnCfg.csrf ->
                     Settle(s, "probeDone", "connect",
                            [c |-> cn, ev |-> << >>, res |-> "", pc |-> "hookCsrf"],
                            OD_fetchCSRFToken, tr)
                [] cnCfg.kind = "odata" /\ ~cnCfg.csrf ->
                     Settle(s, "probeDone", "connect",
                            [c |-> cn, ev |-> << >>, res |-> "", pc |-> "hookMeta"],
                            OD_fetchMetadata, tr)
                [] OTHER ->
                     Settle(s, "probeDone", "connect",
                            [c |-> cn, ev |-> << >>, res |-> "", pc |-> "hook"],
                            NoRequest, tr)
         ELSE LET a == CN_connectFailed(cn, cnCfg, "ConnectionError:cannotConnect") IN
              Settle(s, "probeDone", "connect", a, NoRequest,
                     cnCalls[s].tr \o a.ev)
  /\ UNCHANGED <<now, cnCfg, cnStarted>>
  /\ UNCHANGED nonCN

\* onConnect() of a base or REST connector settles
CNHookDone(s) ==
  /\ cnCalls[s].pc = "hook"
  /\ \E ok \in (IF cnCfg.kind = "base" THEN BOOLEAN ELSE {TRUE}) :
       LET a == IF ok THEN CN_connected(cn, now)
                ELSE CN_connectFailed(cn, cnCfg, "HookError") IN
       Settle(s, "hookDone", "connect", a, NoRequest, cnCalls[s].tr \o a.ev)
  /\ UNCHANGED <<now, cnCfg, cnStarted>>
  /\ UNCHANGED nonCN

\* ODataConnector.onConnect: the CSRF fetch settles, the metadata is fetched
ODHookCsrfDone(s) ==
  /\ cnCalls[s].pc = "hookCsrf"
  /\ \E tok \in Tokens \cup {NoToken} :
       /\ Settle(s, "hookCsrfDone", "connect",
                 [c |-> OD_csrfFetched(cn, now, tok), ev |-> << >>, res |-> "",
                  pc |-> "hookMeta"],
                 OD_fetchMetadata, cnCalls[s].tr)
  /\ UNCHANGED <<now, cnCfg, cnStarted>>
  /\ UNCHANGED nonCN

\* ODataConnector.onConnect: the metadata fetch settles, connect() goes on
ODHookMetaDone(s) ==
  /\ cnCalls[s].pc = "hookMeta"
  /\ \E ok \in BOOLEAN :
       LET a == CN_connected([cn EXCEPT !.metadata = IF ok THEN TRUE ELSE @], now) IN
       Settle(s, "hookDone", "connect", a, NoRequest, cnCalls[s].tr \o a.ev)
  /\ UNCHANGED <<now, cnCfg, cnStarted>>
  /\ UNCHANGED nonCN

\* disconnect() is called: up to `await this.onDisconnect()`
CNDisconnect(s) ==
  /\ FreeSlot(s)
  /\ LET a == CN_disconnect(cn, IF cnCfg.kind = "odata"
                                   THEN OD_onDisconnect(cn) ELSE cn) IN
     Settle(s, "disconnect", "disconnect", a, NoRequest,
            IF a.pc = "idle" THEN << >> ELSE <<"onDisconnect">>)
  /\ cnStarted' = cnStarted + 1
  /\ UNCHANGED <<now, cnCfg>>
  /\ UNCHANGED nonCN

\* onDisconnect() settles
CNDisconnectDone(s) ==
  /\ cnCalls[s].pc = "dhook"
  /\ \E ok \in (IF cnCfg.kind = "base" THEN BOOLEAN ELSE {TRUE}) :
       LET a == IF ok THEN CN_disconnected(cn)
                ELSE [c |-> cn, ev |-> << >>, res |-> "HookError", pc |-> "idle"] IN
       Settle(s, "disconnectDone", "disconnect", a, NoRequest,
              cnCalls[s].tr \o a.ev)
  /\ UNCHANGED <<now, cnCfg, cnStarted>>
  /\ UNCHANGED nonCN

\* a protected helper or a public REST method is called
CNRequest(s) ==
  /\ FreeSlot(s)
  /\ cnCfg.kind \in {"base", "rest"}
  /\ \E op \in (IF cnCfg.kind = "base" THEN Helpers ELSE RESTOps) :
       LET a == CN_request(cn, BC_options(op)) IN
       Settle(s, "request", op,
              [c |-> a.c, ev |-> << >>, pc |-> a.pc,
               res |-> IF a.pc = "idle" THEN REST_settle(op, a.res) ELSE ""],
              a.req, << >>)
  /\ cnStarted' = cnStarted + 1
  /\ UNCHANGED <<now, cnCfg>>
  /\ UNCHANGED nonCN

\* httpClient.request settles
CNRequestDone(s) ==
  /\ cnCalls[s].pc = "http"
  /\ \E resolved \in BOOLEAN :
       Settle(s, "requestDone", cnCalls[s].op,
              [c |-> CN_requestDone(cn, resolved), ev |-> << >>, pc |-> "idle",
               res |-> IF resolved THEN "ok"
                       ELSE REST_settle(cnCalls[s].op, "RequestError")],
              NoRequest, << >>)
  /\ UNCHANGED <<now, cnCfg, cnStarted>>
  /\ UNCHANGED nonCN

\* an entity operation of ODataConnector is called
ODOperation(s) ==
  /\ FreeSlot(s)
  /\ cnCfg.kind = "odata"
  /\ \E op \in ODWrites \cup ODReads :
       IF ~CN_isConnected(cn)
         THEN Settle(s, "operation", op,
                     [c |-> cn, ev |-> << >>, pc |-> "idle",
                      res |-> "ConnectionError:notConnected"],
                     NoRequest, << >>)
         ELSE IF op \in ODWrites /\ cnCfg.csrf /\ OD_needsCSRFToken(cn, now)
           THEN Settle(s, "operation", op,
                       [c |-> cn, ev |-> << >>, pc |-> "csrf", res |-> ""],
                       OD_fetchCSRFToken, << >>)
           ELSE Settle(s, "operation", op,
                       [c |-> cn, ev |-> << >>, pc |-> "send", res |-> ""],
                       OD_send(op, cn, now, cnCfg.version), << >>)
  /\ cnStarted' = cnStarted + 1
  /\ UNCHANGED <<now, cnCfg>>
  /\ UNCHANGED nonCN

\* the CSRF fetch of a write operation settles: the write is sent
ODCsrfDone(s) ==
  /\ cnCalls[s].pc = "csrf"
  /\ \E tok \in Tokens \cup {NoToken} :
       LET c1 == OD_csrfFetched(cn, now, tok) IN
       /\ cn' = c1
       /\ cnCalls' = [cnCalls EXCEPT ![s].pc = "send",
                                    ![s].op = Frame(@, "send")]
       /\ cnOut' = Out("csrfDone", cnCalls[s].op, "", << >>,
                       OD_send(cnCalls[s].op, c1, now, cnCfg.version), << >>, tok)
  /\ UNCHANGED <<now, cnCfg, cnStarted, cnDisconnected>>
  /\ UNCHANGED nonCN

\* the request of an entity operation settles; getAll follows a nextLink
ODSendDone(s) ==
  /\ cnCalls[s].pc = "send"
  /\ \E resolved, more \in BOOLEAN :
       IF cnCalls[s].op = "getAll" /\ resolved /\ more /\ cnCalls[s].n < MaxPages
         THEN /\ cnCalls' = [cnCalls EXCEPT ![s].n = @ + 1]
              /\ cnOut' = Out("nextLink", "getAll", "", << >>,
                              HC_get("/next", Obj(OD_getODataHeaders(cnCfg.version),
                                                  FALSE), Undefined),
                              << >>, NoToken)
              /\ UNCHANGED <<cn, cnDisconnected>>
         ELSE /\ ~more
              /\ Settle(s, "sendDone", cnCalls[s].op,
                        [c |-> cn, ev |-> << >>, pc |-> "idle",
                         res |-> IF resolved THEN "ok" ELSE "RequestError"],
                        NoRequest, << >>)
  /\ UNCHANGED <<now, cnCfg, cnStarted>>
  /\ UNCHANGED nonCN

\* while a request is in HttpClient, its rate limiter emits rate_limit_hit
\* or its circuit breaker emits open
CNOnEvent ==
  /\ \E s \in 1..CnSlots : cnCalls[s].pc \in {"probe", "http"}
  /\ \/ /\ cn.metrics.rateLimitHits < MaxEvents
        /\ cn' = CN_onRateLimitHit(cn)
        /\ cnOut' = [NoOut EXCEPT !.step = "event", !.ev = <<"rate_limit_hit">>]
     \/ /\ cn.metrics.circuitBreakerOpens < MaxEvents
        /\ cn' = CN_onCircuitBreakerOpen(cn)
        /\ cnOut' = [NoOut EXCEPT !.step = "event",
                                  !.ev = <<"circuit_breaker_open">>]
  /\ UNCHANGED <<now, cnCfg, cnCalls, cnStarted, cnDisconnected>>
  /\ UNCHANGED nonCN

\* time passes: a moment, or for an OData connector the lifetime of a CSRF
\* token
CNElapse ==
  /\ \/ /\ (now % CsrfLifetime) + TickMs <= CnTicks * TickMs
        /\ now' = now + TickMs
     \/ /\ cnCfg.kind = "odata"
        /\ now < CsrfLifetime
        /\ now' = now + CsrfLifetime
  /\ cnOut' = NoOut
  /\ UNCHANGED <<cnCfg, cn, cnCalls, cnStarted, cnDisconnected>>
  /\ UNCHANGED nonCN

InitBC ==
  /\ cnCfg \in [kind : {"base", "rest"}, csrf : {FALSE}, errListener : BOOLEAN,
                version : {"4.0"}]
  /\ NewCN

InitOD ==
  /\ cnCfg \in [kind : {"odata"}, csrf : BOOLEAN, errListener : BOOLEAN,
                version : Versions]
  /\ NewCN

NextBC ==
  \/ \E s \in 1..CnSlots :
       \/ CNConnect(s) \/ CNAuthDone(s) \/ CNProbeDone(s) \/ CNHookDone(s)
       \/ CNDisconnect(s) \/ CNDisconnectDone(s)
       \/ CNRequest(s) \/ CNRequestDone(s)
  \/ CNOnEvent
  \/ CNElapse

NextOD ==
  \/ \E s \in 1..CnSlots :
       \/ CNConnect(s) \/ CNAuthDone(s) \/ CNProbeDone(s)
       \/ ODHookCsrfDone(s) \/ ODHookMetaDone(s)
       \/ CNDisconnect(s) \/ CNDisconnectDone(s)
       \/ ODOperation(s) \/ ODCsrfDone(s) \/ ODSendDone(s)
  \/ CNElapse

InitSpecBC == InitClock /\ InitCB /\ IdleRT /\ InitRL /\ IdleH /\ InitBC /\ IdleExt

InitSpecOD == InitClock /\ InitCB /\ IdleRT /\ InitRL /\ IdleH /\ InitOD /\ IdleExt

SpecBC == InitSpecBC /\ [][NextBC]_vars

SpecOD == InitSpecOD /\ [][NextOD]_vars

\* the step is the call of a method / the settling of a call
CalledStep(step) == cnOut'.step = step /\ cnStarted' = cnStarted + 1
SettledStep(op) ==
  /\ cnOut'.op = op
  /\ cnOut'.res # ""
  /\ \E s \in 1..CnSlots : cnCalls[s].pc # "idle" /\ cnCalls'[s].pc = "idle"

(***************************************************************************)
(* C12: connect() called while status is CONNECTED rejects with            *)
(* ConnectionError (already connected) and changes nothing: the object's   *)
(* fields (status, connectedAt) are what they were, no event is emitted,   *)
(* no call is started (no authenticate, no probe, no hook) and no request  *)
(* is made.                                                                *)
(***************************************************************************)
C12_ConnectWhileConnected ==
  [][(CalledStep("connect") /\ cn.status = "connected")
       => /\ cnOut'.res = "ConnectionError:alreadyConnected"
          /\ cn' = cn
          /\ cnOut'.ev = << >>
          /\ cnOut'.tr = << >>
          /\ cnOut'.req = NoRequest
          /\ cnCalls' = cnCalls]_vars

C12_Witness ==
  /\ cnOut.step = "connect"
  /\ cnOut.res = "ConnectionError:alreadyConnected"
  /\ cn.status = "connected"
  /\ cn.connectedAt < now

(***************************************************************************)
(* C13: connect() called in another status sets CONNECTING and emits       *)
(* `connecting` before it calls authenticate; authenticate, the health     *)
(* probe and onConnect() run in that order, each after the previous one    *)
(* succeeded; only a call that went through all three sets CONNECTED,      *)
(* records connectedAt and emits `connected`; and a call that settles has  *)
(* emitted `connecting` and then exactly one of `connected` and `error`.   *)
(***************************************************************************)
ConnectSteps == <<"connecting", "authenticate", "testConnection", "onConnect">>

C13_ConnectOrder ==
  /\ [][(CalledStep("connect") /\ cn.status # "connected")
          => /\ cn'.status = "connecting"
             /\ cnOut'.ev = <<"connecting">>
             /\ cnOut'.tr = SubSeq(ConnectSteps, 1, 2)
             /\ cnOut'.res = ""]_vars
  /\ [](\A s \in 1..CnSlots :
          /\ cnCalls[s].pc = "auth" => cnCalls[s].tr = SubSeq(ConnectSteps, 1, 2)
          /\ cnCalls[s].pc = "probe" => cnCalls[s].tr = SubSeq(ConnectSteps, 1, 3)
          /\ cnCalls[s].pc \in {"hook", "hookCsrf", "hookMeta"}
               => cnCalls[s].tr = ConnectSteps)
  /\ [][SettledStep("connect")
          => \/ /\ cnOut'.res = "ok"
                /\ cnOut'.tr = ConnectSteps \o <<"connected">>
                /\ cnOut'.ev = <<"connected">>
                /\ cn'.status = "connected"
                /\ cn'.connectedAt = now
             \/ /\ cnOut'.res # "ok"
                /\ \E k \in 2..4 :
                     cnOut'.tr = SubSeq(ConnectSteps, 1, k) \o <<"error">>
                /\ cnOut'.ev = <<"error">>
                /\ cn'.status # "connected"]_vars
  /\ [][(cn'.status = "connected" /\ cn.status # "connected")
          => /\ cnOut'.tr = ConnectSteps \o <<"connected">>
             /\ cn'.connectedAt = now]_vars

C13_Witness ==
  /\ cnOut.op = "connect"
  /\ cnOut.res = "ok"
  /\ cnOut.tr = ConnectSteps \o <<"connected">>
  /\ cn.status = "connected"

(***************************************************************************)
(* C14: when authenticate, the health probe (a result with success=false   *)
(* included) or onConnect() fails, connect() sets ERROR, emits `error` and *)
(* rejects with that failure, with or without a listener for `error`.      *)
(***************************************************************************)
C14_FailureSetsErrorAndRethrows ==
  [][(SettledStep("connect") /\ cnOut'.res # "ok")
       => /\ cn'.status = "error"
          /\ cnOut'.ev = <<"error">>
          /\ cnOut'.res = CASE cnOut'.step = "authDone" -> "AuthenticationError"
                            [] cnOut'.step = "probeDone" ->
                                 "ConnectionError:cannotConnect"
                            [] OTHER -> "HookError"]_vars

(***************************************************************************)
(* C15: disconnect() called while DISCONNECTED does nothing: no hook, no   *)
(* event, no change; called in another status it runs onDisconnect() and,  *)
(* the hook done, sets DISCONNECTED, clears connectedAt and emits          *)
(* `disconnected` once; a disconnect() called right after a disconnect()   *)
(* has resolved changes nothing and emits nothing.                         *)
(***************************************************************************)
C15_Disconnect ==
  /\ [][(CalledStep("disconnect") /\ cn.status = "disconnected")
          => /\ cnOut'.res = "ok"
             /\ cn' = cn
             /\ cnOut'.ev = << >>
             /\ cnOut'.tr = << >>
             /\ cnCalls' = cnCalls]_vars
  /\ [][(CalledStep("disconnect") /\ cn.status # "disconnected")
          => /\ cnOut'.tr = <<"onDisconnect">>
             /\ cnOut'.ev = << >>
             /\ cnOut'.res = ""
             /\ cn'.status = cn.status]_vars
  /\ [][(SettledStep("disconnect") /\ cnOut'.res = "ok")
          => /\ cnOut'.tr = <<"onDisconnect", "disconnected">>
             /\ cnOut'.ev = <<"disconnected">>
             /\ cn'.status = "disconnected"
             /\ cn'.connectedAt = NoTime]_vars
  /\ [][(CalledStep("disconnect") /\ cnOut.op = "disconnect" /\ cnOut.res = "ok")
          => /\ cn' = cn
             /\ cnOut'.ev = << >>
             /\ cnOut'.res = "ok"
             /\ cnDisconnected' = cnDisconnected]_vars
  /\ [][cnDisconnected' # cnDisconnected
          => /\ SettledStep("disconnect")
             /\ cnDisconnected' = cnDisconnected + 1]_vars

C15_Witness ==
  /\ cnOut.step = "disconnect"
  /\ cnOut.res = "ok"
  /\ cnStarted = 3
  /\ cnDisconnected = 1
  /\ cn.status = "disconnected"
  /\ \A s \in 1..CnSlots : cnCalls[s].pc = "idle"

(***************************************************************************)
(* C16: a protected helper or a public REST method called while status is  *)
(* not CONNECTED rejects with ConnectionError (not connected) and nothing  *)
(* else happens: HttpClient.request is not called (so no token is taken,   *)
(* the breaker is not entered and nothing is sent) and no metric changes.  *)
(***************************************************************************)
C16_RequestGating ==
  [][(CalledStep("request") /\ cn.status # "connected")
       => /\ cnOut'.res = "ConnectionError:notConnected"
          /\ cnOut'.req = NoRequest
          /\ cn' = cn
          /\ cnCalls' = cnCalls
          /\ UNCHANGED <<rl, cb>>]_vars

\* the same for the entity operations of ODataConnector
C16_ODataGating ==
  [][(CalledStep("operation") /\ cn.status # "connected")
       => /\ cnOut'.res = "ConnectionError:notConnected"
          /\ cnOut'.req = NoRequest
          /\ cn' = cn
          /\ cnCalls' = cnCalls
          /\ UNCHANGED <<rl, cb>>]_vars

(***************************************************************************)
(* C17: no counter of the metrics ever decreases, whatever connect(),      *)
(* disconnect() and requests do; connectedAt changes only when a connect() *)
(* succeeds, to the time of that success, and when a disconnect() is done, *)
(* so the uptime of getMetrics() is counted from the latest successful     *)
(* connect() and is 0 at that moment.                                      *)
(***************************************************************************)
C17_MetricsMonotone ==
  /\ [][/\ cn'.metrics.totalRequests >= cn.metrics.totalRequests
        /\ cn'.metrics.successfulRequests >= cn.metrics.successfulRequests
        /\ cn'.metrics.failedRequests >= cn.metrics.failedRequests
        /\ cn'.metrics.rateLimitHits >= cn.metrics.rateLimitHits
        /\ cn'.metrics.circuitBreakerOpens >= cn.metrics.circuitBreakerOpens]_vars
  /\ [][cn'.connectedAt # cn.connectedAt
          => \/ /\ SettledStep("connect") /\ cnOut'.res = "ok"
                /\ cn'.connectedAt = now'
                /\ CN_getMetrics(cn', now').uptime = 0
             \/ /\ SettledStep("disconnect") /\ cnOut'.res = "ok"
                /\ cn'.connectedAt = NoTime]_vars
  /\ [][(SettledStep("connect") /\ cnOut'.res = "ok")
          => CN_getMetrics(cn', now').uptime = 0]_vars
  /\ [](cn.connectedAt # NoTime
          => CN_getMetrics(cn, now).uptime = now - cn.connectedAt)

C17_Witness ==
  /\ cnOut.op = "connect"
  /\ cnOut.res = "ok"
  /\ cnStarted = 4
  /\ cn.metrics.totalRequests = 1
  /\ cn.metrics.successfulRequests + cn.metrics.failedRequests = 1
  /\ cn.connectedAt = now
  /\ now > 0

(***************************************************************************)
(* C18: whenever an OData connector is DISCONNECTED after a disconnect(),  *)
(* it holds no CSRF token and no metadata, whatever writes and connect()   *)
(* calls are in flight.                                                    *)
(***************************************************************************)
C18_DisconnectedHoldsNothing ==
  (cn.status = "disconnected" /\ cnDisconnected >= 1)
    => (cn.csrfToken.token = NoToken /\ ~cn.metadata)

\* the call in slot s starts a CSRF token fetch in this step
FetchStarted(s) ==
  /\ cnCalls'[s].pc \in {"csrf", "hookCsrf"}
  /\ cnCalls[s].pc \notin {"csrf", "hookCsrf"}
ThirtyMinutes == 30 * 60 * 1000
TokenHeaders(req) == {h \in req.headers : h[1] = "X-CSRF-Token" /\ h[2] # "Fetch"}
ValidToken(c, t) == c.csrfToken.token # NoToken /\ t - c.csrfToken.fetchedAt <= ThirtyMinutes
WriteMethods == {"POST", "PUT", "PATCH", "DELETE"}

(***************************************************************************)
(* C19: with csrf enabled, a write operation fetches a CSRF token before   *)
(* the write exactly when no token is held or the held one is older than   *)
(* 30 minutes; otherwise the write is sent at once with the held token; no *)
(* request carries a token that is not the held, non-expired one; a read   *)
(* operation never fetches; and when the fetch brings no token the write   *)
(* is sent all the same, without a token if none that is valid is held.    *)
(***************************************************************************)
C19_CsrfLifecycle ==
  /\ [][(CalledStep("operation") /\ cn.status = "connected" /\ cnCfg.csrf
           /\ cnOut'.op \in ODWrites)
          => /\ (\E s \in 1..CnSlots : FetchStarted(s)) <=> ~ValidToken(cn, now)
             /\ ValidToken(cn, now)
                  => /\ cnOut'.req.method \in WriteMethods
                     /\ TokenHeaders(cnOut'.req)
                          = {<<"X-CSRF-Token", cn.csrfToken.token>>}]_vars
  /\ [][\A h \in TokenHeaders(cnOut'.req) :
          ValidToken(cn', now) /\ h[2] = cn'.csrfToken.token]_vars
  /\ [][(CalledStep("operation") /\ cnOut'.op \in ODReads)
          => /\ \A s \in 1..CnSlots : ~FetchStarted(s)
             /\ cn.status = "connected" => cnOut'.req.method = "GET"
             /\ TokenHeaders(cnOut'.req) = {}]_vars
  /\ [][(cnOut'.step = "csrfDone" /\ cnOut'.tok = NoToken)
          => /\ cnOut'.req.method \in WriteMethods
             /\ \E s \in 1..CnSlots :
                  cnCalls[s].pc = "csrf" /\ cnCalls'[s].pc = "send"
             /\ ~ValidToken(cn, now) => TokenHeaders(cnOut'.req) = {}]_vars

C19_Witness ==
  /\ cnOut.step = "operation"
  /\ cnOut.op \in ODWrites
  /\ cnOut.req.method = "GET"
  /\ cn.csrfToken.token # NoToken
  /\ now - cn.csrfToken.fetchedAt > ThirtyMinutes
  /\ \E s \in 1..CnSlots : cnCalls[s].pc = "csrf"

(***************************************************************************)
(* C20: the CSRF token is fetched by a GET request that carries the header *)
(* X-CSRF-Token: Fetch (among its headers, nothing among its query         *)
(* parameters), and the token the response brings is the X-CSRF-Token      *)
(* header of the write that follows.                                       *)
(***************************************************************************)
C20_FetchCarriesHeader ==
  [][(\E s \in 1..CnSlots : FetchStarted(s))
       => /\ cnOut'.req.method = "GET"
          /\ FetchHeader \in cnOut'.req.headers
          /\ ~cnOut'.req.params.given]_vars

C20_TokenAttached ==
  [][(cnOut'.step = "csrfDone" /\ cnOut'.tok # NoToken)
       => /\ cnOut'.req.method \in WriteMethods
          /\ TokenHeaders(cnOut'.req) = {<<"X-CSRF-Token", cnOut'.tok>>}]_vars

C20_CsrfFetch ==
  /\ C20_FetchCarriesHeader
  /\ C20_TokenAttached

VersionHeaders(version) ==
  IF version = "4.0"
    THEN {<<"OData-Version", "4.0">>, <<"OData-MaxVersion", "4.0">>}
    ELSE {<<"DataServiceVersion", "2.0">>, <<"MaxDataServiceVersion", "2.0">>}
VersionHeaderNames ==
  {"OData-Version", "OData-MaxVersion", "DataServiceVersion",
   "MaxDataServiceVersion"}
ClaimedEntityOps ==
  {"query", "getEntity", "count", "callFunction", "getAll", "createEntity",
   "updateEntity", "patchEntity", "deleteEntity", "callAction"}
\* this step hands the request of an entity operation to the HTTP client
EntityRequestSent ==
  /\ cnOut'.step \in {"operation", "csrfDone", "nextLink"}
  /\ cnOut'.req # NoRequest
  /\ \A s \in 1..CnSlots : ~FetchStarted(s)

(***************************************************************************)
(* C21: the request of every entity operation of an OData connector        *)
(* carries, as HTTP headers, the two protocol-version headers of the       *)
(* connector's version and no protocol-version header of the other one.    *)
(***************************************************************************)
C21_VersionHeaders ==
  [][(EntityRequestSent /\ cnOut'.op \in ClaimedEntityOps)
       => /\ VersionHeaders(cnCfg.version) \subseteq cnOut'.req.headers
          /\ \A h \in cnOut'.req.headers :
               h[1] \in VersionHeaderNames => h \in VersionHeaders(cnCfg.version)]_vars

\* the same, of the write operations alone
C21_WritesCarryVersionHeaders ==
  [][(EntityRequestSent /\ cnOut'.op \in ClaimedEntityOps \cap ODWrites)
       => /\ VersionHeaders(cnCfg.version) \subseteq cnOut'.req.headers
          /\ \A h \in cnOut'.req.headers :
               h[1] \in VersionHeaderNames => h \in VersionHeaders(cnCfg.version)]_vars

----------------------------------------------------------------------------
(***************************************************************************)
(* Authentication handlers and the configuration object of the connector.  *)
(* Objects live in a heap: the connector's config and the handler hold a   *)
(* reference to the credentials object the constructor was given.          *)
(***************************************************************************)
Minute == 60 * 1000
BufferMs == 5 * Minute
DefaultExpiresIn == 3600
Refs == {1, 2}
AuMaxMinutes == 3
\* the initial lifetimes of a credential, in minutes
AuLifetimes == {4, 6, 7}
\* expires_in of a token response, in seconds; 0 stands for an absent field
ExpiresIn == {0, 360}
Bearer(tok) == {<<"Authorization", <<"Bearer", tok>>>>}

OA_isTokenExpired_nobuffer(cr, t) ==
  IF cr.expiresAt = NoTime THEN TRUE ELSE t >= cr.expiresAt

OA_isTokenExpired(cr, t) ==
  IF cr.expiresAt = NoTime THEN TRUE ELSE t + BufferMs >= cr.expiresAt

\* OAuth2Handler.authenticate up to its first await: what it does next
OA_authenticate(cr, t) ==
  IF cr.accessToken # NoToken /\ ~OA_isTokenExpired(cr, t) THEN "return"
  ELSE IF cr.refreshToken # NoToken THEN "refresh"
  ELSE "grant"

\* authenticate after `await client.post(tokenUrl, client_credentials)`
OA_granted(cr, t, resp) ==
  [cr EXCEPT !.accessToken = resp.access_token,
             !.refreshToken = resp.refresh_token,
             !.expiresAt =
               t + (IF resp.expires_in # 0 THEN resp.expires_in
                    ELSE DefaultExpiresIn) * 1000]

\* refreshToken() up to its await: does it throw at once
OA_refreshToken(cr) == cr.refreshToken = NoToken

\* refreshToken() after `await client.post(tokenUrl, refresh_token)`
OA_refreshed(cr, t, resp) ==
  [cr EXCEPT !.accessToken = resp.access_token,
             !.refreshToken = IF resp.refresh_token # NoToken
                                THEN resp.refresh_token ELSE @,
             !.expiresAt =
               t + (IF resp.expires_in # 0 THEN resp.expires_in
                    ELSE DefaultExpiresIn) * 1000]

OA_getAuthHeaders(cr) ==
  IF cr.accessToken = NoToken
    THEN [res |-> "AuthenticationError:tokenExpired", headers |-> {}]
    ELSE [res |-> "ok", headers |-> Bearer(cr.accessToken)]

JWT_isTokenExpired(cr, t) ==
  IF cr.expiresAt = NoTime THEN FALSE ELSE t + BufferMs >= cr.expiresAt

JWT_getAuthHeaders(cr, t) ==
  IF JWT_isTokenExpired(cr, t)
    THEN [res |-> "AuthenticationError:tokenExpired", headers |-> {}]
    ELSE [res |-> "ok", headers |-> Bearer(cr.token)]

\* the headers the request interceptor of HttpClient asks the handler for
AU_getAuthHeaders(a, t) ==
  LET cr == a.heap[a.handler] IN
  IF cr.type = "oauth2" THEN OA_getAuthHeaders(cr) ELSE JWT_getAuthHeaders(cr, t)

\* BaseConnector.getConfig: a new object with the fields of this.config
CN_getConfig(config) == [f \in DOMAIN config |-> config[f]]

\* new BaseConnector(config): this.config is the object given, and the
\* handler is built from config.credentials
AU_new(cr) ==
  [heap |-> [r \in Refs |-> IF r = 1 THEN cr ELSE NoCredentials],
   config |-> [baseUrl |-> "https://erp", credentials |-> 1],
   handler |-> 1, returned |-> NoConfig, pc |-> "idle", viaAuth |-> FALSE]

InitAU ==
  /\ \E cr \in
        [type : {"oauth2"}, accessToken : {NoToken, "tok0"},
         refreshToken : {NoToken, "ref0"},
         expiresAt : {NoTime} \cup {m * Minute : m \in AuLifetimes},
         token : {NoToken}]
        \cup
        [type : {"jwt"}, accessToken : {NoToken}, refreshToken : {NoToken},
         expiresAt : {NoTime} \cup {m * Minute : m \in AuLifetimes},
         token : {"tok0"}] :
       au = AU_new(cr)
  /\ auOut = NoAuthOut

TokenResponses ==
  [access_token : {"tokA", "tokB"}, refresh_token : {NoToken, "refA"},
   expires_in : ExpiresIn]

\* authHandler.authenticate(client) is called
AUAuthenticate ==
  /\ au.pc = "idle"
  /\ LET cr == au.heap[au.handler]
         next == IF cr.type = "oauth2" THEN OA_authenticate(cr, now)
                 ELSE "return" IN
     /\ au' = [au EXCEPT !.pc = IF next = "return" THEN "idle" ELSE next,
                         !.viaAuth = next # "return"]
     /\ auOut' = [NoAuthOut EXCEPT !.step = "authenticate",
                    !.res = IF next = "return" THEN "ok" ELSE "",
                    !.net = CASE next = "grant" -> "client_credentials"
                              [] next = "refresh" -> "refresh_token"
                              [] OTHER -> "none"]
  /\ UNCHANGED now
  /\ UNCHANGED nonAU

\* the client-credentials grant settles
AUGrantDone ==
  /\ au.pc = "grant"
  /\ \/ \E resp \in TokenResponses :
          /\ au' = [au EXCEPT !.pc = "idle", !.viaAuth = FALSE,
                      !.heap[au.handler] = OA_granted(@, now, resp)]
          /\ auOut' = [NoAuthOut EXCEPT !.step = "grantDone", !.res = "ok",
                                        !.resp = resp]
     \/ /\ au' = [au EXCEPT !.pc = "idle", !.viaAuth = FALSE]
        /\ auOut' = [NoAuthOut EXCEPT !.step = "grantDone",
                       !.res = "AuthenticationError:invalidCredentials"]
  /\ UNCHANGED now
  /\ UNCHANGED nonAU

\* authHandler.refreshToken() is called, as the response interceptor of
\* HttpClient does on a 401
AURefreshToken ==
  /\ au.pc = "idle"
  /\ au.heap[au.handler].type = "oauth2"
  /\ IF OA_refreshToken(au.heap[au.handler])
       THEN /\ auOut' = [NoAuthOut EXCEPT !.step = "refreshToken",
                           !.res = "AuthenticationError:tokenRefreshFailed"]
            /\ UNCHANGED au
       ELSE /\ au' = [au EXCEPT !.pc = "refresh"]
            /\ auOut' = [NoAuthOut EXCEPT !.step = "refreshToken",
                                          !.net = "refresh_token"]
  /\ UNCHANGED now
  /\ UNCHANGED nonAU

\* the refresh-token grant settles; within authenticate() its error is
\* caught and replaced
AURefreshDone ==
  /\ au.pc = "refresh"
  /\ \/ \E resp \in TokenResponses :
          /\ au' = [au EXCEPT !.pc = "idle", !.viaAuth = FALSE,
                      !.heap[au.handler] = OA_refreshed(@, now, resp)]
          /\ auOut' = [NoAuthOut EXCEPT !.step = "refreshDone", !.res = "ok",
                                        !.resp = resp]
     \/ /\ au' = [au EXCEPT !.pc = "idle", !.viaAuth = FALSE]
        /\ auOut' = [NoAuthOut EXCEPT !.step = "refreshDone",
                       !.res = IF au.viaAuth
                                 THEN "AuthenticationError:invalidCredentials"
                                 ELSE "AuthenticationError:tokenRefreshFailed"]
  /\ UNCHANGED now
  /\ UNCHANGED nonAU

\* a request passes the request interceptor of HttpClient
AUGetAuthHeaders ==
  /\ LET h == AU_getAuthHeaders(au, now) IN
       auOut' = [NoAuthOut EXCEPT !.step = "getAuthHeaders", !.res = h.res,
                                  !.headers = h.headers]
  /\ UNCHANGED <<now, au>>
  /\ UNCHANGED nonAU

\* a caller takes connector.getConfig()
AUGetConfig ==
  /\ au.returned = NoConfig
  /\ au' = [au EXCEPT !.returned = CN_getConfig(au.config)]
  /\ auOut' = [NoAuthOut EXCEPT !.step = "getConfig", !.res = "ok"]
  /\ UNCHANGED now
  /\ UNCHANGED nonAU

\* the caller writes to the object getConfig() returned: to a field of it,
\* or to a field of the credentials object it refers to
AUCallerMutates ==
  /\ au.returned # NoConfig
  /\ \/ /\ au.returned.baseUrl # "https://caller"
        /\ au' = [au EXCEPT !.returned.baseUrl = "https://caller"]
     \/ /\ au.returned.credentials # 2
        /\ au' = [au EXCEPT !.returned.credentials = 2,
                    !.heap[2] = [NoCredentials EXCEPT !.type = "caller"]]
     \/ \E f \in {"accessToken", "token"} :
          /\ au.heap[au.returned.credentials][f] # "tokX"
          /\ au' = [au EXCEPT !.heap[au.returned.credentials][f] = "tokX"]
  /\ auOut' = [NoAuthOut EXCEPT !.step = "callerMutates"]
  /\ UNCHANGED now
  /\ UNCHANGED nonAU

AUElapse ==
  /\ now < AuMaxMinutes * Minute
  /\ now' = now + Minute
  /\ auOut' = [NoAuthOut EXCEPT !.step = "elapse"]
  /\ UNCHANGED au
  /\ UNCHANGED nonAU

NextAU ==
  \/ AUAuthenticate \/ AUGrantDone \/ AURefreshToken \/ AURefreshDone
  \/ AUGetAuthHeaders \/ AUGetConfig \/ AUCallerMutates \/ AUElapse

InitSpecAU ==
  InitClock /\ InitCB /\ IdleRT /\ InitRL /\ IdleH /\ IdleCN /\ InitAU
    /\ IdleCS /\ IdlePG /\ IdleQB /\ IdleMP

SpecAU == InitSpecAU /\ [][NextAU]_vars

\* the credentials object of the handler
Cred == au.heap[au.handler]
FiveMinutes == 5 * 60 * 1000
OneHourSeconds == 60 * 60

(***************************************************************************)
(* C22: OAuth2Handler.authenticate makes no network call when an access    *)
(* token exists and now + 5 minutes < expiresAt; otherwise it starts the   *)
(* refresh-token grant when a refresh token exists and the                 *)
(* client-credentials grant only when none exists; a successful grant or   *)
(* refresh stores the access token of the response with                    *)
(* expiresAt = now + expires_in (3600 s when absent), and that token is    *)
(* the one getAuthHeaders() gives to the next request.                     *)
(***************************************************************************)
C22_AuthenticateDecision ==
  /\ [][(auOut'.step = "authenticate" /\ Cred.type = "oauth2")
          => IF /\ Cred.accessToken # NoToken
                /\ Cred.expiresAt # NoTime
                /\ now + FiveMinutes < Cred.expiresAt
               THEN /\ auOut'.net = "none"
                    /\ auOut'.res = "ok"
                    /\ au' = au
               ELSE IF Cred.refreshToken # NoToken
                 THEN auOut'.net = "refresh_token" /\ au'.pc = "refresh"
                 ELSE auOut'.net = "client_credentials" /\ au'.pc = "grant"]_vars
  /\ [][(auOut'.step \in {"grantDone", "refreshDone"} /\ auOut'.res = "ok")
          => /\ Cred'.accessToken = auOut'.resp.access_token
             /\ Cred'.expiresAt =
                  now + 1000 * (IF auOut'.resp.expires_in = 0 THEN OneHourSeconds
                                ELSE auOut'.resp.expires_in)
             /\ AU_getAuthHeaders(au', now).headers
                  = {<<"Authorization", <<"Bearer", auOut'.resp.access_token>>>>}]_vars

\* authenticate() has met an access token that expires in 4 minutes and has
\* started the refresh
C22_Witness ==
  /\ auOut.step = "authenticate"
  /\ auOut.net = "refresh_token"
  /\ Cred.accessToken # NoToken
  /\ Cred.expiresAt = now + 4 * 60 * 1000

(***************************************************************************)
(* C23: getAuthHeaders() of the OAuth2 and JWT handlers throws             *)
(* AuthenticationError whenever the token is absent or isTokenExpired()    *)
(* reports it expired, and never returns an Authorization header built     *)
(* from an expired token.                                                  *)
(***************************************************************************)
C23_NoHeaderFromExpiredToken ==
  [][auOut'.step = "getAuthHeaders"
       => LET invalid ==
                IF Cred.type = "oauth2"
                  THEN Cred.accessToken = NoToken \/ OA_isTokenExpired(Cred, now)
                  ELSE Cred.token = NoToken \/ JWT_isTokenExpired(Cred, now)
          IN invalid => /\ auOut'.res = "AuthenticationError:tokenExpired"
                        /\ auOut'.headers = {}]_vars

\* the same, of the JWT handler alone
C23_JWTNoHeaderFromExpiredToken ==
  [][(auOut'.step = "getAuthHeaders" /\ Cred.type = "jwt")
       => ((Cred.token = NoToken \/ JWT_isTokenExpired(Cred, now))
             => /\ auOut'.res = "AuthenticationError:tokenExpired"
                /\ auOut'.headers = {})]_vars

(***************************************************************************)
(* C25: whatever a caller writes to the object getConfig() returned, the   *)
(* connector's configuration, the credentials it refers to and the         *)
(* headers its requests are authenticated with stay as they were.          *)
(***************************************************************************)
C25_GetConfigCopies ==
  [][auOut'.step = "callerMutates"
       => /\ au'.config = au.config
          /\ au'.heap[au.config.credentials] = au.heap[au.config.credentials]
          /\ AU_getAuthHeaders(au', now) = AU_getAuthHeaders(au, now)]_vars

\* the same, of the fields of the returned object itself
C25_TopLevelFieldsCopied ==
  [][auOut'.step = "callerMutates" => au'.config = au.config]_vars

\* the request() call in slot r has rejected with a transformed transport
\* failure
TransportFailure(r) ==
  /\ hReq[r].pc = "done"
  /\ hReq[r].out.kind \in {"RequestError", "ConnectionError"}

(***************************************************************************)
(* C24: a request that fails with an HTTP response rejects with a          *)
(* RequestError of that status, and a request that fails at network level, *)
(* without a response, rejects with a ConnectionError.                     *)
(***************************************************************************)
C24_ErrorClassification ==
  \A r \in Slots :
    TransportFailure(r)
      => IF hReq[r].last # NoStatus
           THEN hReq[r].out = [kind |-> "RequestError", status |-> hReq[r].last]
           ELSE hReq[r].out.kind = "ConnectionError"

\* the same, of the failures that have a response
C24_ResponseGivesRequestError ==
  \A r \in Slots :
    (TransportFailure(r) /\ hReq[r].last # NoStatus)
      => hReq[r].out = [kind |-> "RequestError", status |-> hReq[r].last]

----------------------------------------------------------------------------
(***************************************************************************)
(* ConnectorService (services/connector.service.ts): the registry of       *)
(* connector instances, under concurrent calls.                            *)
(***************************************************************************)
\* the methods that start with `await this.getConnector(connectionId, userId)`
CSOps == {"getConnector", "connect", "testConnection", "getStatus", "getMetrics"}

\* getConnector up to its first await: the cached instance, or none
CS_getConnector(c, id) == c.connectors[id]

\* this.connectors.set(connectionId, connector)
CS_set(c, id, connector) == [c EXCEPT !.connectors[id] = connector]

\* this.connectors.delete(connectionId)
CS_delete(c, id) == [c EXCEPT !.connectors[id] = NoConnector]

\* history: the caller of getConnector receives connector
CS_hand(c, id, connector) == [c EXCEPT !.obtained[id] = @ \cup {connector}]

\* a method of CSOps is called: getConnector returns the cached instance or
\* awaits ERPConnection.findOne
CSCall(k) ==
  /\ cs.calls[k].pc = "idle"
  /\ cs.started < CsMaxCalls
  /\ \E op \in CSOps, id \in ConnectionIds, user \in UserIds :
       LET cached == CS_getConnector(cs, id) IN
       IF cached # NoConnector
         THEN /\ cs' = [CS_hand(cs, id, cached) EXCEPT !.started = @ + 1]
              /\ csOut' = [NoCSOut EXCEPT !.step = "cached", !.op = op,
                             !.id = id, !.user = user, !.connector = cached,
                             !.res = "ok"]
         ELSE /\ cs' = [cs EXCEPT !.started = @ + 1,
                          !.calls[k] = [pc |-> "findOne", op |-> op, id |-> id,
                                        user |-> user,
                                        connector |-> NoConnector]]
              /\ csOut' = [NoCSOut EXCEPT !.step = "findOne", !.op = op,
                                          !.id = id, !.user = user]
  /\ UNCHANGED now
  /\ UNCHANGED nonCS

\* ERPConnection.findOne({_id, userId, isActive: true}): a document is
\* found only for the owner's userId, and not when it is inactive or absent
CS_findOne(id, user, isActive) == Owner[id] = user /\ isActive

\* findOne settles: no connection, or createConnectorInstance(config) makes
\* a new connector and getConnector awaits it
CSFindOneDone(k) ==
  /\ cs.calls[k].pc = "findOne"
  /\ \E isActive \in BOOLEAN :
       IF ~CS_findOne(cs.calls[k].id, cs.calls[k].user, isActive)
         THEN /\ cs' = [cs EXCEPT !.calls[k] = CS_idle]
              /\ csOut' = [NoCSOut EXCEPT !.step = "notFound",
                             !.op = cs.calls[k].op, !.id = cs.calls[k].id,
                             !.user = cs.calls[k].user,
                             !.res = "NotFoundError"]
         ELSE /\ cs' = [cs EXCEPT !.created = @ + 1,
                          !.calls[k].pc = "created",
                          !.calls[k].connector = cs.created + 1]
              /\ csOut' = [NoCSOut EXCEPT !.step = "instanceCreated",
                             !.op = cs.calls[k].op, !.id = cs.calls[k].id,
                             !.user = cs.calls[k].user,
                             !.connector = cs.created + 1]
  /\ UNCHANGED now
  /\ UNCHANGED nonCS

\* the await of createConnectorInstance is over: the instance is stored and
\* returned
CSStore(k) ==
  /\ cs.calls[k].pc = "created"
  /\ LET id == cs.calls[k].id
         connector == cs.calls[k].connector IN
     /\ cs' = [CS_hand(CS_set(cs, id, connector), id, connector)
                 EXCEPT !.calls[k] = CS_idle]
     /\ csOut' = [NoCSOut EXCEPT !.step = "stored", !.op = cs.calls[k].op,
                    !.id = id, !.user = cs.calls[k].user,
                    !.connector = connector, !.res = "ok"]
  /\ UNCHANGED now
  /\ UNCHANGED nonCS

\* disconnect(connectionId) or removeConnector(connectionId) is called
CSDisconnect(k) ==
  /\ cs.calls[k].pc = "idle"
  /\ cs.started < CsMaxCalls
  /\ \E id \in ConnectionIds :
       LET connector == cs.connectors[id] IN
       IF connector = NoConnector
         THEN /\ cs' = [cs EXCEPT !.started = @ + 1]
              /\ csOut' = [NoCSOut EXCEPT !.step = "disconnect",
                             !.op = "disconnect", !.id = id, !.res = "ok"]
         ELSE /\ cs' = [cs EXCEPT !.started = @ + 1,
                          !.calls[k] = [pc |-> "disconnecting",
                                        op |-> "disconnect", id |-> id,
                                        user |-> "",
                                        connector |-> connector]]
              /\ csOut' = [NoCSOut EXCEPT !.step = "disconnect",
                             !.op = "disconnect", !.id = id,
                             !.connector = connector]
  /\ UNCHANGED now
  /\ UNCHANGED nonCS

\* connector.disconnect() settles: the entry is deleted, or the error is
\* rethrown
CSDisconnectDone(k) ==
  /\ cs.calls[k].pc = "disconnecting"
  /\ \E ok \in BOOLEAN :
       LET id == cs.calls[k].id IN
       /\ cs' = IF ok
                  THEN [CS_delete(cs, id) EXCEPT !.calls[k] = CS_idle,
                                                 !.obtained[id] = {}]
                  ELSE [cs EXCEPT !.calls[k] = CS_idle]
       /\ csOut' = [NoCSOut EXCEPT !.step = "disconnectDone",
                      !.op = "disconnect", !.id = id,
                      !.res = IF ok THEN "ok" ELSE "Error"]
  /\ UNCHANGED now
  /\ UNCHANGED nonCS

NextCS ==
  \E k \in 1..CsSlots :
    \/ CSCall(k) \/ CSFindOneDone(k) \/ CSStore(k)
    \/ CSDisconnect(k) \/ CSDisconnectDone(k)

InitSpecCS ==
  InitClock /\ InitCB /\ IdleRT /\ InitRL /\ IdleH /\ IdleCN /\ IdleAU /\ IdleCS
    /\ IdlePG /\ IdleQB /\ IdleMP

SpecCS == InitSpecCS /\ [][NextCS]_vars

(***************************************************************************)
(* C26: while the registry holds an entry for a connection id no connector *)
(* instance is created for that id, and all callers that obtain a          *)
(* connector for the id while it stays cached obtain the same instance.    *)
(***************************************************************************)
C26_OneInstancePerId ==
  /\ [][csOut'.step = "instanceCreated"
          => cs.connectors[csOut'.id] = NoConnector]_vars
  /\ [][\A id \in ConnectionIds :
          (cs.connectors[id] # NoConnector /\ cs'.connectors[id] # NoConnector)
            => cs'.connectors[id] = cs.connectors[id]]_vars
  /\ [](\A id \in ConnectionIds : Cardinality(cs.obtained[id]) <= 1)

\* a call that finds the entry cached obtains the cached instance and
\* creates none
C26_CachedInstanceReturned ==
  [][csOut'.step = "cached"
       => /\ csOut'.connector = cs.connectors[csOut'.id]
          /\ csOut'.connector # NoConnector
          /\ cs'.created = cs.created]_vars

----------------------------------------------------------------------------
(***************************************************************************)
(* Pagination: RESTConnector.getAllData and ODataConnector.getAll. An item *)
(* is <<request, index>>: the index-th element of the page the request     *)
(* number `request` was answered with.                                     *)
(***************************************************************************)
DefaultLimit == 20
DefaultMaxPages == 10
DefaultPage == 1
Formats == {"array", "data", "other"}

\* the elements 1..n of the page that answers request r
Items(r, n) == [k \in 1..n |-> <<r, k>>]

\* pageData of getAllData: an array, the data field of an object, or the
\* response itself as the only element
REST_pageData(format, r, n) ==
  IF format \in {"array", "data"} THEN Items(r, n) ELSE <<<<r, 0>>>>

REST_limit(p) == IF p.limit # 0 THEN p.limit ELSE DefaultLimit
REST_maxPages(p) == IF p.maxPages # 0 THEN p.maxPages ELSE DefaultMaxPages
REST_firstPage(p) == IF p.page # 0 THEN p.page ELSE DefaultPage

\* getAllData up to its first await
REST_getAllData(p) ==
  IF ~p.autoPaginate
    THEN [p EXCEPT !.pc = "single", !.requests = <<p.page>>]
    ELSE [p EXCEPT !.pc = "page", !.i = 0, !.currentPage = REST_firstPage(p),
                   !.requests = <<REST_firstPage(p)>>]

\* getAllData without autoPaginate, after the await
REST_singleDone(p, n) ==
  LET data == IF p.format = "array" THEN Items(1, n) ELSE <<<<1, 0>>>> IN
  [p EXCEPT !.pc = "done", !.allData = data, !.result = data,
            !.sizes = <<Len(data)>>]

REST_pageDone_nobreak(p, n) ==
  LET pageData == REST_pageData(p.format, Len(p.requests), n)
      all == p.allData \o pageData
      q == [p EXCEPT !.allData = all, !.sizes = Append(@, Len(pageData))] IN
  IF p.i + 1 < REST_maxPages(p)
    THEN [q EXCEPT !.i = @ + 1, !.currentPage = @ + 1,
                   !.requests = Append(@, p.currentPage + 1)]
    ELSE [q EXCEPT !.pc = "done", !.i = @ + 1, !.currentPage = @ + 1,
                   !.result = all]

\* one turn of the loop of getAllData, after the await
REST_pageDone(p, n) ==
  LET pageData == REST_pageData(p.format, Len(p.requests), n)
      all == p.allData \o pageData
      q == [p EXCEPT !.allData = all, !.sizes = Append(@, Len(pageData))] IN
  IF Len(pageData) < REST_limit(p)
    THEN [q EXCEPT !.pc = "done", !.result = all]
    ELSE IF p.i + 1 < REST_maxPages(p)
      THEN [q EXCEPT !.i = @ + 1, !.currentPage = @ + 1,
                     !.requests = Append(@, p.currentPage + 1)]
      ELSE [q EXCEPT !.pc = "done", !.i = @ + 1, !.currentPage = @ + 1,
                     !.result = all]

\* the data of a page of getAll: response.value, the response when it is an
\* array, or the response itself as the only element
OD_pageData(format, r, n) ==
  IF format \in {"value", "array"} THEN Items(r, n) ELSE <<<<r, 0>>>>

\* getAll up to its first await: the initial query; a request is 0 for the
\* query and k for the k-th nextLink
OD_getAll(p) == [p EXCEPT !.pc = "link", !.requests = <<0>>]

OD_pageDone_once(p, format, n, next) ==
  LET data == OD_pageData(format, Len(p.requests), n)
      all == p.allData \o data IN
  [p EXCEPT !.pc = "done", !.result = all, !.allData = all,
            !.sizes = Append(@, Len(data)), !.nexts = Append(@, next)]

\* one turn of the loop of getAll, after the await; next: the response has
\* an @odata.nextLink
OD_pageDone(p, format, n, next) ==
  LET data == OD_pageData(format, Len(p.requests), n)
      all == p.allData \o data
      q == [p EXCEPT !.allData = all, !.sizes = Append(@, Len(data)),
                     !.nexts = Append(@, next)] IN
  IF next
    THEN [q EXCEPT !.requests = Append(@, Len(p.requests))]
    ELSE [q EXCEPT !.pc = "done", !.result = all]

\* a connected connector, its configuration and the request's pagination
\* options; format is the shape of the server's responses
InitPG ==
  \E kind \in {"rest", "odata"} :
    pg \in {[PG_idle EXCEPT !.kind = kind, !.autoPaginate = ap,
                            !.maxPages = maxp, !.limit = l, !.page = pn,
                            !.format = f] :
              ap \in (IF kind = "rest" THEN BOOLEAN ELSE {FALSE}),
              maxp \in (IF kind = "rest" THEN 0..PgMaxPages ELSE {0}),
              l \in (IF kind = "rest" THEN 0..2 ELSE {0}),
              pn \in (IF kind = "rest" THEN 0..2 ELSE {0}),
              f \in (IF kind = "rest" THEN Formats
                     ELSE {"value", "array", "object"})}

\* getAllData(path, queryOptions) is called
PGGetAllData ==
  /\ pg.kind = "rest"
  /\ pg.pc = "idle"
  /\ pg' = REST_getAllData(pg)
  /\ UNCHANGED now
  /\ UNCHANGED nonPG

\* the getData of getAllData settles
PGPageDone ==
  /\ pg.pc \in {"single", "page"}
  /\ \/ pg' = [pg EXCEPT !.pc = "failed"]
     \/ \E n \in 0..PgMaxSize :
          pg' = IF pg.pc = "single" THEN REST_singleDone(pg, n)
                ELSE REST_pageDone(pg, n)
  /\ UNCHANGED now
  /\ UNCHANGED nonPG

\* getAll(entitySet) is called
PGGetAll ==
  /\ pg.kind = "odata"
  /\ pg.pc = "idle"
  /\ pg' = OD_getAll(pg)
  /\ UNCHANGED now
  /\ UNCHANGED nonPG

\* the query or the nextLink request of getAll settles; the server's chain
\* of nextLinks is finite; an array has no @odata.nextLink property
PGLinkDone ==
  /\ pg.pc = "link"
  /\ \/ pg' = [pg EXCEPT !.pc = "failed"]
     \/ \E n \in 0..PgMaxSize, next \in BOOLEAN :
          /\ next => (Len(pg.requests) <= PgMaxLinks /\ pg.format # "array")
          /\ pg' = OD_pageDone(pg, pg.format, n, next)
  /\ UNCHANGED now
  /\ UNCHANGED nonPG

NextPG == PGGetAllData \/ PGPageDone \/ PGGetAll \/ PGLinkDone

InitSpecPG ==
  InitClock /\ InitCB /\ IdleRT /\ InitRL /\ IdleH /\ IdleCN /\ IdleAU
    /\ IdleCS /\ InitPG /\ IdleQB /\ IdleMP

\* every request that is awaited settles
SpecPG ==
  InitSpecPG /\ [][NextPG]_vars /\ WF_vars(PGPageDone) /\ WF_vars(PGLinkDone)

RECURSIVE PagesUpTo(_)
\* the data of the responses 1..r received by getAllData / getAll, in order
PagesUpTo(r) ==
  IF r = 0 THEN << >>
  ELSE PagesUpTo(r - 1)
         \o (IF pg.format \in {"array", "data", "value"}
               THEN [k \in 1..pg.sizes[r] |-> <<r, k>>]
               ELSE <<<<r, 0>>>>)
GivenLimit == IF pg.limit = 0 THEN 20 ELSE pg.limit
GivenMaxPages == IF pg.maxPages = 0 THEN 10 ELSE pg.maxPages
GivenPage == IF pg.page = 0 THEN 1 ELSE pg.page

(***************************************************************************)
(* C27: getAllData without autoPaginate makes exactly one request; with    *)
(* autoPaginate it requests the pages currentPage, currentPage+1, ... in   *)
(* order, goes on only after a page of at least `limit` items, makes at    *)
(* most maxPages requests, stops after the first shorter page or after     *)
(* maxPages requests, returns the pages concatenated in order, and always  *)
(* terminates.                                                             *)
(***************************************************************************)
C27_GetAllData ==
  /\ [](pg.kind = "rest" /\ ~pg.autoPaginate => Len(pg.requests) <= 1)
  /\ [](pg.kind = "rest" /\ ~pg.autoPaginate /\ pg.pc = "done"
          => Len(pg.requests) = 1)
  /\ [](pg.kind = "rest" /\ pg.autoPaginate /\ pg.pc # "idle"
          => /\ Len(pg.requests) \in 1..GivenMaxPages
             /\ \A r \in 1..Len(pg.requests) : pg.requests[r] = GivenPage + r - 1
             /\ \A r \in 1..Len(pg.requests) - 1 : pg.sizes[r] >= GivenLimit)
  /\ [](pg.kind = "rest" /\ pg.autoPaginate /\ pg.pc = "done"
          => /\ Len(pg.sizes) = Len(pg.requests)
             /\ \/ pg.sizes[Len(pg.sizes)] < GivenLimit
                \/ Len(pg.requests) = GivenMaxPages
             /\ pg.result = PagesUpTo(Len(pg.requests)))
  /\ (pg.pc \in {"single", "page"}) ~> (pg.pc \in {"done", "failed"})

\* pages of sizes [2,2,1] with limit 2: 5 items after 3 requests
C27_Witness ==
  /\ pg.kind = "rest" /\ pg.autoPaginate /\ pg.pc = "done"
  /\ pg.limit = 2
  /\ pg.sizes = <<2, 2, 1>>
  /\ Len(pg.requests) = 3
  /\ Len(pg.result) = 5

(***************************************************************************)
(* C28: getAll makes the initial query and then one request per            *)
(* @odata.nextLink received, stops at the first response without a         *)
(* nextLink, returns the value arrays of all pages concatenated in order,  *)
(* and terminates when the server's chain of nextLinks is finite.          *)
(***************************************************************************)
C28_GetAll ==
  /\ [](pg.kind = "odata" /\ pg.pc = "link"
          => /\ Len(pg.requests) = Len(pg.nexts) + 1
             /\ \A r \in 1..Len(pg.nexts) : pg.nexts[r])
  /\ [](pg.kind = "odata" /\ pg.pc = "done"
          => /\ Len(pg.requests) = Len(pg.nexts)
             /\ \A r \in 1..Len(pg.nexts) : pg.nexts[r] <=> r < Len(pg.nexts)
             /\ pg.format = "value" => pg.result = PagesUpTo(Len(pg.requests)))
  /\ (pg.pc = "link") ~> (pg.pc \in {"done", "failed"})

\* getAll has followed two nextLinks and returned the three pages
C28_Witness ==
  /\ pg.kind = "odata" /\ pg.pc = "done" /\ pg.format = "value"
  /\ Len(pg.requests) = 3
  /\ pg.sizes = <<2, 1, 2>>
  /\ Len(pg.result) = 5

----------------------------------------------------------------------------
(***************************************************************************)
(* ODataQueryBuilder (src/unnamed/part_005): filter conditions. A string   *)
(* is the sequence of its pieces; a string value is given character by     *)
(* character, so that quotes inside it can be told from the quotes around  *)
(* it.                                                                     *)
(***************************************************************************)
Quote == "'"

\* the values a condition is given: strings, a number, a boolean, null, a
\* Date
FilterValues ==
  { [t |-> "string", s |-> << >>], [t |-> "string", s |-> <<"A">>],
    [t |-> "string", s |-> <<"B">>],
    [t |-> "string", s |-> <<"O", Quote, "x">>],
    [t |-> "number", s |-> <<"7">>], [t |-> "boolean", s |-> <<"true">>],
    [t |-> "null", s |-> << >>],
    [t |-> "date", s |-> <<"2023-01-15T10:30:00", ".000Z">>] }

RECURSIVE QB_replaceQuotes(_)
\* value.replace(/'/g, "''")
QB_replaceQuotes(s) ==
  IF s = << >> THEN << >>
  ELSE (IF Head(s) = Quote THEN <<Quote, Quote>> ELSE <<Head(s)>>)
         \o QB_replaceQuotes(Tail(s))

QB_formatValue_noescape(v, version) ==
  CASE v.t = "null" -> <<"null">>
    [] v.t = "string" -> <<Quote>> \o v.s \o <<Quote>>
    [] v.t = "date" ->
         IF version = "2.0" THEN <<"datetime'", v.s[1], Quote>> ELSE v.s
    [] OTHER -> v.s

QB_formatValue(v, version) ==
  CASE v.t = "null" -> <<"null">>
    [] v.t = "string" -> <<Quote>> \o QB_replaceQuotes(v.s) \o <<Quote>>
    [] v.t = "date" ->
         IF version = "2.0" THEN <<"datetime'", v.s[1], Quote>> ELSE v.s
    [] OTHER -> v.s

RECURSIVE QB_join(_, _)
\* Array.prototype.join
QB_join(parts, sep) ==
  IF parts = << >> THEN << >>
  ELSE IF Len(parts) = 1 THEN parts[1]
  ELSE parts[1] \o <<sep>> \o QB_join(Tail(parts), sep)

\* buildFilterCondition; values is the array given, or the value wrapped
QB_buildFilterCondition(c) ==
  LET lits == [k \in 1..Len(c.value) |-> QB_formatValue(c.value[k], c.version)]
      filterStr ==
        CASE c.operator = "contains" ->
               <<"contains(", c.field, ",">> \o lits[1] \o <<")">>
          [] c.operator = "in" ->
               IF c.version = "4.0"
                 THEN <<c.field, " in (">> \o QB_join(lits, ",") \o <<")">>
                 ELSE QB_join([k \in 1..Len(lits) |->
                                 <<c.field, " eq ">> \o lits[k]], " or ")
          [] OTHER -> <<c.field, " ", c.operator, " ">> \o lits[1]
  IN IF c.negate THEN <<"not (">> \o filterStr \o <<")">> ELSE filterStr

\* the lists of at most QbMaxValues values
ValueLists ==
  UNION {[1..n -> FilterValues] : n \in 0..QbMaxValues}

\* a builder of either version and the condition handed to filter(): the
\* operator IN with an array or a single value, or another operator with a
\* single value
InitQB ==
  \E version \in Versions, operator \in {"in", "eq", "contains"},
     value \in ValueLists, isArray, negate \in BOOLEAN :
    /\ isArray => operator = "in"
    /\ ~isArray => Len(value) = 1
    /\ qb = [QB_idle EXCEPT !.version = version, !.field = "Status",
                            !.operator = operator, !.value = value,
                            !.isArray = isArray, !.negate = negate]

\* filter(condition) is called
QBFilter ==
  /\ ~qb.built
  /\ qb' = [qb EXCEPT !.built = TRUE, !.filterStr = QB_buildFilterCondition(qb)]
  /\ UNCHANGED now
  /\ UNCHANGED nonQB

NextQB == QBFilter

InitSpecQB ==
  InitClock /\ InitCB /\ IdleRT /\ InitRL /\ IdleH /\ IdleCN /\ IdleAU
    /\ IdleCS /\ IdlePG /\ InitQB /\ IdleMP

SpecQB == InitSpecQB /\ [][NextQB]_vars

RECURSIVE Doubled(_)
\* a string with every single quote written twice
Doubled(s) ==
  IF Len(s) = 0 THEN << >>
  ELSE Doubled(SubSeq(s, 1, Len(s) - 1))
         \o (IF s[Len(s)] = "'" THEN <<"'", "'">> ELSE <<s[Len(s)]>>)

\* the OData literal of a value
Literal(v, version) ==
  IF v.t = "string" THEN <<"'">> \o Doubled(v.s) \o <<"'">>
  ELSE IF v.t = "null" THEN <<"null">>
  ELSE IF v.t = "date" /\ version = "2.0"
    THEN <<"datetime'", "2023-01-15T10:30:00", "'">>
  ELSE v.s

RECURSIVE InList(_, _)
\* v1,...,vn
InList(vs, version) ==
  IF Len(vs) = 0 THEN << >>
  ELSE IF Len(vs) = 1 THEN Literal(vs[1], version)
  ELSE Literal(vs[1], version) \o <<",">> \o InList(Tail(vs), version)

RECURSIVE OrChain(_, _, _)
\* field eq v1 or ... or field eq vn
OrChain(field, vs, version) ==
  IF Len(vs) = 0 THEN << >>
  ELSE IF Len(vs) = 1 THEN <<field, " eq ">> \o Literal(vs[1], version)
  ELSE <<field, " eq ">> \o Literal(vs[1], version) \o <<" or ">>
         \o OrChain(field, Tail(vs), version)

(***************************************************************************)
(* C29: for a condition with the operator IN and a list of values the      *)
(* filter is `field in (v1,...,vn)` under v4 and                           *)
(* `field eq v1 or ... or field eq vn` under v2, every value written as    *)
(* its OData literal, a string between single quotes with the quotes       *)
(* inside it doubled.                                                      *)
(***************************************************************************)
C29_FilterIn ==
  (qb.built /\ qb.operator = "in" /\ qb.isArray /\ ~qb.negate)
    => qb.filterStr =
         IF qb.version = "4.0"
           THEN <<qb.field, " in (">> \o InList(qb.value, qb.version) \o <<")">>
           ELSE OrChain(qb.field, qb.value, qb.version)

\* Status IN ["A","B"] under v2
C29_Witness ==
  /\ qb.built /\ qb.version = "2.0" /\ qb.operator = "in" /\ qb.isArray
  /\ qb.value = <<[t |-> "string", s |-> <<"A">>], [t |-> "string", s |-> <<"B">>]>>
  /\ qb.filterStr = <<"Status", " eq ", "'", "A", "'", " or ",
                      "Status", " eq ", "'", "B", "'">>

----------------------------------------------------------------------------
(***************************************************************************)
(* ODataMetadataParser (connectors/odata/ODataMetadataParser.ts). A        *)
(* document is described by its root element, the Version attribute of     *)
(* the root, and its EntityType elements; XP_parse is what XMLParser makes *)
(* of it under the options of the constructor.                             *)
(***************************************************************************)
JSUndefined == [t |-> "undefined"]
JSString(s) == [t |-> "string", s |-> s]
JSNumber(n) == [t |-> "number", n |-> n]
JSArray(items) == [t |-> "array", items |-> items]
JSObject(f) == [t |-> "object", f |-> f]
\* in place of a value: the evaluation threw
JSThrow == [t |-> "throw"]

\* value[name] for a name that is not an index
JS_get(v, name) ==
  IF v.t = "object" /\ name \in DOMAIN v.f THEN v.f[name] ELSE JSUndefined

JS_truthy(v) ==
  /\ v.t # "undefined"
  /\ ~(v.t = "string" /\ v.s = "")
  /\ ~(v.t = "number" /\ v.n = 0)

\* a || b
JS_or(a, b) == IF JS_truthy(a) THEN a ELSE b

\* the Version attributes of the documents, and the number each is read as
VersionAttrs == {"1.0", "2.0", "4.0"}
XP_toNumber(s) == CASE s = "1.0" -> 1 [] s = "2.0" -> 2 [] OTHER -> 4

\* parseAttributeValue: true, an attribute that reads as a number is
\* given as a number
XP_parseAttributeValue(s) ==
  IF s \in VersionAttrs THEN JSNumber(XP_toNumber(s)) ELSE JSString(s)

PropertyNames == <<"Id", "Name", "Extra">>

\* isArray: the tags that are always given as arrays
ArrayTags == {"EntityType", "Property", "Key", "PropertyRef"}

\* the children of one tag: absent, an array for a tag of ArrayTags, and
\* else the element itself when it is the only one
XP_children(tag, elements) ==
  IF elements = << >> THEN << >>
  ELSE IF tag \in ArrayTags \/ Len(elements) > 1
    THEN <<<<tag, JSArray(elements)>>>>
  ELSE <<<<tag, elements[1]>>>>

\* an object: its attributes, prefixed by @_, and its children by tag
XP_object(pairs) ==
  JSObject([name \in {pairs[k][1] : k \in 1..Len(pairs)} |->
             pairs[CHOOSE k \in 1..Len(pairs) : pairs[k][1] = name][2]])

\* this.parser.parse(xmlData); of a document that is no XML the parser
\* throws
XP_parse(doc) ==
  LET propertyRef(k) ==
        XP_object(<<<<"@_Name", XP_parseAttributeValue(PropertyNames[k])>>>>)
      key == XP_object(XP_children("PropertyRef",
                                   [k \in 1..doc.refs |-> propertyRef(k)]))
      property(k) ==
        XP_object(<<<<"@_Name", XP_parseAttributeValue(PropertyNames[k])>>,
                    <<"@_Type", XP_parseAttributeValue("Edm.String")>>>>)
      entityType ==
        XP_object(<<<<"@_Name", XP_parseAttributeValue("Product")>>>>
                    \o XP_children("Key", IF doc.hasKey THEN <<key>> ELSE << >>)
                    \o XP_children("Property",
                                   [k \in 1..doc.props |-> property(k)]))
      schema ==
        XP_object(<<<<"@_Namespace", XP_parseAttributeValue("NS")>>>>
                    \o XP_children("EntityType",
                                   [k \in 1..doc.types |-> entityType]))
      dataServices == XP_object(XP_children("Schema", <<schema>>))
      edmx ==
        XP_object((IF doc.version # "" 
                     THEN <<<<"@_Version", XP_parseAttributeValue(doc.version)>>>>
                     ELSE << >>)
                  \o (IF doc.dataServices
                        THEN <<<<"edmx:DataServices", dataServices>>>>
                        ELSE << >>))
  IN IF doc.malformed THEN JSThrow
     ELSE IF doc.root = "" THEN XP_object(<< >>)
     ELSE XP_object(<<<<doc.root, edmx>>>>)

MP_ensureArray(v) ==
  IF v.t = "undefined" THEN << >>
  ELSE IF v.t = "array" THEN v.items
  ELSE <<v>>

\* the key of parseEntityType
MP_key(et) ==
  LET keyElement == JS_get(et, "Key")
      keyRefs == IF JS_truthy(keyElement)
                   THEN MP_ensureArray(JS_or(JS_get(keyElement, "PropertyRef"),
                                             keyElement))
                   ELSE << >>
      names == [k \in 1..Len(keyRefs) |->
                  JS_or(JS_get(keyRefs[k], "@_Name"),
                        IF keyRefs[k].t = "string" THEN keyRefs[k]
                        ELSE JSString(""))]
  IN SelectSeq(names, JS_truthy)

MP_parseEntityType(et) ==
  LET rawProperties == MP_ensureArray(JS_get(et, "Property")) IN
  [name |-> JS_or(JS_get(et, "@_Name"), JSString("")),
   key |-> MP_key(et),
   properties |-> [k \in 1..Len(rawProperties) |->
                     JS_or(JS_get(rawProperties[k], "@_Name"), JSString(""))]]

\* emptyMetadata()
MP_emptyMetadata == [threw |-> FALSE, thrown |-> FALSE, entityTypes |-> << >>]

\* the try block of parse(xmlData) on what the XML parser returned; threw:
\* an exception was raised in the block
MP_tryBlock(parsed) ==
  LET edmx == JS_or(JS_get(parsed, "edmx:Edmx"), JS_get(parsed, "Edmx"))
      version == JS_or(JS_get(edmx, "@_Version"), JSString("4.0"))
      dataServices == JS_or(JS_get(edmx, "edmx:DataServices"),
                            JS_get(edmx, "DataServices"))
      schemas == MP_ensureArray(JS_get(dataServices, "Schema"))
      types == IF schemas = << >> THEN << >>
               ELSE MP_ensureArray(JS_get(schemas[1], "EntityType"))
  IN IF parsed = JSThrow THEN [MP_emptyMetadata EXCEPT !.threw = TRUE]
     ELSE IF ~JS_truthy(edmx) THEN MP_emptyMetadata
     ELSE IF version.t # "string"
       THEN [MP_emptyMetadata EXCEPT !.threw = TRUE]
     ELSE IF ~JS_truthy(dataServices) THEN MP_emptyMetadata
     ELSE [threw |-> FALSE, thrown |-> FALSE,
           entityTypes |-> [k \in 1..Len(types) |-> MP_parseEntityType(types[k])]]

\* parse(xmlData) without its catch block
MP_parse_nocatch(parsed) ==
  LET r == MP_tryBlock(parsed) IN [r EXCEPT !.thrown = r.threw]

\* parse(xmlData) on what the XML parser returned; threw: the catch block
\* was entered; thrown: an exception left parse()
MP_parse(parsed) ==
  LET r == MP_tryBlock(parsed) IN
  IF r.threw THEN [MP_emptyMetadata EXCEPT !.threw = TRUE] ELSE r

\* the documents: with or without root, Version and DataServices, with up
\* to MpMaxTypes entity types of up to MpMaxProps properties
InitMP ==
  \E root \in {"", "edmx:Edmx", "Edmx"}, version \in VersionAttrs \cup {""},
     malformed, dataServices, hasKey \in BOOLEAN, types \in 0..MpMaxTypes,
     refs, props \in 0..MpMaxProps :
    mp = [MP_idle EXCEPT !.doc = [malformed |-> malformed, root |-> root, version |-> version,
                                  dataServices |-> dataServices,
                                  types |-> types, hasKey |-> hasKey,
                                  refs |-> refs, props |-> props]]

\* parse(xmlData) is called
MPParse ==
  /\ ~mp.parsed
  /\ LET m == MP_parse(XP_parse(mp.doc)) IN
       mp' = [mp EXCEPT !.parsed = TRUE, !.threw = m.threw,
                        !.thrown = m.thrown,
                        !.entityTypes = m.entityTypes]
  /\ UNCHANGED now
  /\ UNCHANGED nonMP

NextMP == MPParse

InitSpecMP ==
  InitClock /\ InitCB /\ IdleRT /\ InitRL /\ IdleH /\ IdleCN /\ IdleAU
    /\ IdleCS /\ IdlePG /\ IdleQB /\ InitMP

SpecMP == InitSpecMP /\ [][NextMP]_vars

\* root Edmx with Version="1.0", one EntityType with one Key/PropertyRef and
\* two Property elements
MinimalEdmxV2 ==
  /\ ~mp.doc.malformed
  /\ mp.doc.root = "edmx:Edmx" /\ mp.doc.version = "1.0"
  /\ mp.doc.dataServices /\ mp.doc.types = 1
  /\ mp.doc.hasKey /\ mp.doc.refs = 1 /\ mp.doc.props = 2

(***************************************************************************)
(* C30: parse() of a minimal well-formed EDMX v2 document returns exactly  *)
(* one entity type, whose key is the one referenced property name and      *)
(* whose properties are the two declared.                                  *)
(***************************************************************************)
C30_MinimalEdmx ==
  (mp.parsed /\ MinimalEdmxV2)
    => /\ Len(mp.entityTypes) = 1
       /\ Len(mp.entityTypes[1].key) = 1
       /\ mp.entityTypes[1].key[1] = [t |-> "string", s |-> "Id"]
       /\ Len(mp.entityTypes[1].properties) = 2

\* of a document whose root has no Version attribute the entity types and
\* their properties are returned
C30_PropertiesParsed ==
  (mp.parsed /\ ~mp.doc.malformed /\ mp.doc.root # "" /\ mp.doc.version = ""
     /\ mp.doc.dataServices)
    => /\ Len(mp.entityTypes) = mp.doc.types
       /\ \A k \in 1..Len(mp.entityTypes) :
            Len(mp.entityTypes[k].properties) = mp.doc.props

\* of no document a key is returned
C30_KeyAlwaysEmpty ==
  \A k \in 1..Len(mp.entityTypes) : mp.entityTypes[k].key = << >>


C31_ConnectSurvivesMetadataFailure ==
  [][(\E s \in 1..CnSlots : cnCalls[s].pc = "hookMeta" /\ cnCalls'[s].pc # "hookMeta")
       => (cnOut'.res = "ok" /\ cn'.status = "connected")]_vars


----------------------------------------------------------------------------
\* the tokens a step hands out: one to a call that returns at once, one to
\* each queued call it releases
Consumed ==
  (IF rlNextId' # rlNextId /\ rlOut' \in {"granted", "taken"} THEN 1 ELSE 0)
    + (Len(rlReleased') - Len(rlReleased))

(***************************************************************************)
(* C32: whatever acquire(), acquireOrThrow() (tryAcquire()), the queue's   *)
(* loop, refills, reset() and updateConfig() have done, the token count is *)
(* an integer from 0 to maxRequests; and a step that hands out tokens      *)
(* finds at least that many after its refill and takes exactly those.      *)
(***************************************************************************)
C32_TokenInvariant ==
  /\ [](rl.tokens \in 0..rl.maxRequests)
  /\ [][Consumed > 0
          => /\ RL_refillTokens(rl, now).tokens >= Consumed
             /\ rl'.tokens = RL_refillTokens(rl, now).tokens - Consumed]_vars

\* a token is taken after the configuration was lowered, a reset and a
\* release from the queue
C32_Witness ==
  /\ rlHist.updates >= 1 /\ rl.maxRequests < MaxRequests
  /\ rlHist.reset
  /\ Len(rlReleased) >= 1
  /\ rlOut = "taken"


(***************************************************************************)
(* C33: while an acquire() call waits in the queue, no acquire() and no    *)
(* tryAcquire() (acquireOrThrow()) call made later is given a token: a     *)
(* call made while the queue is not empty is queued or refused.            *)
(***************************************************************************)
C33_AdmissionOrder ==
  [][(rl.queue # << >> /\ rlNextId' # rlNextId)
       => rlOut' \notin {"granted", "taken"}]_vars

\* a call made while another waits and no token is left after its refill
\* is queued or refused
C33_RefusedWithoutToken ==
  [][(rl.queue # << >> /\ rlNextId' # rlNextId
        /\ RL_refillTokens(rl, now).tokens = 0)
       => rlOut' \in {"queued", "thrown"}]_vars


----------------------------------------------------------------------------
\* time advances and a timer that is due fires
SpecRLFair ==
  InitSpecRL /\ [][NextRL]_vars /\ WF_vars(RLTick) /\ WF_vars(RLWake)

Waiting(id) == id \in Range(rl.queue)
Returned(id) == id \in Range(rlReleased)
\* the time modelled ends while the call is still queued
StillWaitingAtEnd(id) == now = MaxTime /\ Waiting(id)

(***************************************************************************)
(* C34: every acquire() call that waits in the queue returns in the end,   *)
(* also when reset() is called while it waits.                             *)
(***************************************************************************)
C34_AcquireReturns ==
  \A id \in 1..MaxCalls :
    Waiting(id) ~> (Returned(id) \/ StillWaitingAtEnd(id))

\* a waiting call returns in the end unless reset() is called
C34_ReturnsUnlessReset ==
  \A id \in 1..MaxCalls :
    Waiting(id) ~> (Returned(id) \/ StillWaitingAtEnd(id) \/ rlHist.reset)

\* reset() takes no call out of the queue when none waits; a call it takes
\* out is not released by it
C34_ResetDropsWaiters ==
  [][rlOut' = "reset" => (rl'.queue = << >> /\ rlReleased' = rlReleased)]_vars


----------------------------------------------------------------------------
(***************************************************************************)
(* C35: the `open` event, which the connector counts in                    *)
(* circuitBreakerOpens, is emitted only by a step that takes the breaker   *)
(* from CLOSED or HALF_OPEN to OPEN; a call in flight that fails while the *)
(* breaker is OPEN emits none and leaves nextAttemptTime as it is.         *)
(***************************************************************************)
C35_OpenOnlyOnTransition ==
  /\ [][cbEmit' = "open" => cb.state \in {"closed", "half_open"}]_vars
  /\ [][(cb.state = "open" /\ cb'.state = "open")
          => cb'.nextAttemptTime = cb.nextAttemptTime]_vars

\* every step into OPEN emits `open` and sets nextAttemptTime
C35_TransitionEmitsOpen ==
  [][(cb.state # "open" /\ cb'.state = "open")
       => (cbEmit' = "open" /\ cb'.nextAttemptTime = now + Timeout)]_vars


----------------------------------------------------------------------------
\* execute(fn) is called when no call is in flight
CBExecuteSeq == cbInflight = 0 /\ CBExecute

\* the breaker under executions made one after another, with reset() at
\* any time
NextCBSeq == CBExecuteSeq \/ CBFnSucceeds \/ CBFnFails \/ CBReset \/ CBTick

SpecCBSeq == InitSpecCB /\ [][NextCBSeq]_vars

(***************************************************************************)
(* C36: with executions one after another, CLOSED implies                  *)
(* failureCount < failureThreshold and nextAttemptTime unset, OPEN implies *)
(* nextAttemptTime set, HALF_OPEN implies successCount < successThreshold; *)
(* and reset() leaves the breaker CLOSED with both counters 0 whatever its *)
(* state was.                                                              *)
(***************************************************************************)
C36_StateInvariants ==
  /\ [](cb.state = "closed"
          => (cb.failureCount < FailureThreshold /\ cb.nextAttemptTime = NoTime))
  /\ [](cb.state = "open" => cb.nextAttemptTime # NoTime)
  /\ [](cb.state = "half_open" => cb.successCount < SuccessThreshold)
  /\ [][cbEmit' = "reset"
          => (cb'.state = "closed" /\ cb'.failureCount = 0
              /\ cb'.successCount = 0)]_vars

\* HALF_OPEN, one success short of closing
C36_Witness ==
  /\ cb.state = "half_open"
  /\ cb.successCount = SuccessThreshold - 1
  /\ cbOut = "returned"


----------------------------------------------------------------------------
(***************************************************************************)
(* C37: whatever connect() and disconnect() calls overlap on one           *)
(* connector, connectedAt is set exactly when status is CONNECTED.         *)
(***************************************************************************)
C37_ConnectedAtIffConnected ==
  (cn.connectedAt # NoTime) <=> (cn.status = "connected")

\* a CONNECTED connector has its connectedAt set
C37_ConnectedHasConnectedAt ==
  (cn.status = "connected") => (cn.connectedAt # NoTime)


----------------------------------------------------------------------------
\* the requests in flight through BaseConnector.request
InFlight == Cardinality({s \in 1..CnSlots : cnCalls[s].pc = "http"})
Completed(c) == c.metrics.successfulRequests + c.metrics.failedRequests

(***************************************************************************)
(* C38: totalRequests = successfulRequests + failedRequests + the number   *)
(* of requests in flight, whatever requests overlap; a request that        *)
(* completes increments exactly one of successfulRequests and              *)
(* failedRequests, by one, and nothing else changes them.                  *)
(***************************************************************************)
C38_RequestAccounting ==
  /\ [](cn.metrics.totalRequests = Completed(cn) + InFlight)
  /\ [][(\E s \in 1..CnSlots : cnCalls[s].pc = "http" /\ cnCalls'[s].pc # "http")
          => /\ Completed(cn') = Completed(cn) + 1
             /\ cn'.metrics.successfulRequests >= cn.metrics.successfulRequests
             /\ cn'.metrics.failedRequests >= cn.metrics.failedRequests]_vars
  /\ [][(cn'.metrics.successfulRequests # cn.metrics.successfulRequests
           \/ cn'.metrics.failedRequests # cn.metrics.failedRequests)
          => \E s \in 1..CnSlots :
               cnCalls[s].pc = "http" /\ cnCalls'[s].pc # "http"]_vars

\* one request has succeeded, one has failed and one is in flight
C38_Witness ==
  /\ cn.metrics.successfulRequests >= 1
  /\ cn.metrics.failedRequests >= 1
  /\ InFlight >= 1


----------------------------------------------------------------------------
(***************************************************************************)
(* C39: getConnector(connectionId, userId), and the methods that go        *)
(* through it, hand a connector only to the user who owns the connection,  *)
(* also when the connector is cached already.                              *)
(***************************************************************************)
C39_OnlyOwnerObtains ==
  [][(csOut'.step \in {"cached", "stored"} /\ csOut'.connector # NoConnector)
       => Owner[csOut'.id] = csOut'.user]_vars

\* a connector is created only for the owner of the connection
C39_CreatedForOwnerOnly ==
  [][csOut'.step \in {"instanceCreated", "stored"}
       => Owner[csOut'.id] = csOut'.user]_vars


----------------------------------------------------------------------------
\* what this.client.request rejects with when getAuthHeaders() throws in the
\* request interceptor: the AuthenticationError itself, a ConnectorError
\* that is no AxiosError and has no response property
AuthErrorThrown ==
  [axios |-> FALSE, response |-> NoStatus, code |-> "AUTHENTICATION_ERROR",
   timeoutMsg |-> FALSE]

\* the rejection goes through the response interceptor's error handler and
\* the catch block of executeRequest into the retry strategy; thrown is
\* history: the error getAuthHeaders() threw
HC_onInterceptorThrow(q, e, refreshable) ==
  IF HC_onResponseError(e, refreshable) = "refresh"
    THEN [q |-> [q EXCEPT !.pc = "refreshing", !.thrown = "AuthenticationError"],
          failed |-> FALSE]
    ELSE LET err == HC_transformError(e, 30000) IN
         IF HC_onRequestError(err, q.retry, q.attempt) = "sleep"
           THEN [q |-> [q EXCEPT !.pc = "sleeping",
                                 !.thrown = "AuthenticationError"],
                 failed |-> FALSE]
           ELSE [q |-> [q EXCEPT !.pc = "done", !.cbRec = @ + 1,
                                 !.thrown = "AuthenticationError",
                                 !.out = [kind |-> err.name,
                                          status |-> err.statusCode]],
                 failed |-> TRUE]

\* the request interceptor runs for the transport call of slot r and
\* getAuthHeaders() throws AuthenticationError: no request is sent
HInterceptorThrows(r) ==
  LET a == HC_onInterceptorThrow(hReq[r], AuthErrorThrown, hCfg.refreshable) IN
  /\ hReq[r].pc = "transport"
  /\ hReq' = [hReq EXCEPT ![r] = a.q]
  /\ cb' = IF a.failed THEN CB_onFailure(cb, now).b ELSE cb
  /\ UNCHANGED <<now, rl, rlLoops, hCfg>>
  /\ UNCHANGED nonH

\* the HTTP client with an auth handler whose getAuthHeaders() may throw
NextHA == NextH \/ \E r \in Slots : HInterceptorThrows(r)

SpecHA == InitSpecH /\ [][NextHA]_vars

(***************************************************************************)
(* C40: an AuthenticationError thrown by getAuthHeaders() while a request  *)
(* is prepared reaches the caller of HttpClient.request as an              *)
(* AuthenticationError: it is not retried and not turned into a            *)
(* RequestError or another kind.                                           *)
(***************************************************************************)
C40_AuthErrorPreserved ==
  \A r \in Slots :
    hReq[r].thrown = "AuthenticationError"
      => /\ hReq[r].pc = "done"
         /\ hReq[r].out.kind = "AuthenticationError"

\* the request is not retried: the call rejects at once, no backoff sleep and
\* no further transport call follows
C40_AuthErrorNotRetried ==
  \A r \in Slots : hReq[r].thrown = "AuthenticationError" => hReq[r].pc = "done"

====
